---- MODULE Spec2Model ----
(***************************************************************************)
(* Route generation (framework/approutegen), path matching (app router),   *)
(* the dispatch engine (framework/engine, framework/contracts.go) and the  *)
(* HTTP server adapter (framework/httpserver) of the blog repository.      *)
(*                                                                         *)
(* Text is modelled as a sequence of one-character strings, so that the    *)
(* prefix, suffix, trimming, splitting and byte-order comparisons of the   *)
(* Go code are computed and not assumed.                                   *)
(***************************************************************************)
EXTENDS Integers, Sequences, FiniteSets, TLC

(***************************************************************************)
(* Characters and strings                                                  *)
(***************************************************************************)

\* The characters used by the model, in ascending byte order.
AsciiOrder ==
    << " ", "-", ".", "/",
       "0", "1", "2", "3", "4", "5", "6", "7", "8", "9", ":",
       "A", "B", "C", "D", "E", "F", "G", "H", "I", "J", "K", "L", "M",
       "N", "O", "P", "Q", "R", "S", "T", "U", "V", "W", "X", "Y", "Z",
       "[", "]", "_",
       "a", "b", "c", "d", "e", "f", "g", "h", "i", "j", "k", "l", "m",
       "n", "o", "p", "q", "r", "s", "t", "u", "v", "w", "x", "y", "z" >>

Ord(c) == CHOOSE i \in DOMAIN AsciiOrder : AsciiOrder[i] = c

UpperLetters == {AsciiOrder[i] : i \in 16..41}

LowerLetters == {AsciiOrder[i] : i \in 45..70}

Digits == {AsciiOrder[i] : i \in 5..14}

IsLetter(c) == c \in UpperLetters \/ c \in LowerLetters

IsDigit(c) == c \in Digits

\* Go's < on strings: byte-wise lexicographic order.
RECURSIVE StrLess(_, _)
StrLess(a, b) ==
    IF b = << >> THEN FALSE
    ELSE IF a = << >> THEN TRUE
    ELSE IF Head(a) # Head(b) THEN Ord(Head(a)) < Ord(Head(b))
    ELSE StrLess(Tail(a), Tail(b))

HasPrefix(s, p) == Len(s) >= Len(p) /\ SubSeq(s, 1, Len(p)) = p

HasSuffix(s, p) == Len(s) >= Len(p) /\ SubSeq(s, Len(s) - Len(p) + 1, Len(s)) = p

ContainsAny(s, chars) == \E i \in DOMAIN s : s[i] \in chars

RECURSIVE TrimLeft(_, _)
TrimLeft(s, c) == IF s # << >> /\ Head(s) = c THEN TrimLeft(Tail(s), c) ELSE s

RECURSIVE TrimRight(_, _)
TrimRight(s, c) ==
    IF s # << >> /\ s[Len(s)] = c THEN TrimRight(SubSeq(s, 1, Len(s) - 1), c) ELSE s

\* strings.Trim(s, c) for a one-character cutset.
Trim(s, c) == TrimRight(TrimLeft(s, c), c)

\* strings.TrimSpace; the blank is the only white-space character of the model.
TrimSpace(s) == Trim(s, " ")

\* strings.Split(s, sep) for a one-character separator: always at least one part.
RECURSIVE SplitFrom(_, _, _, _)
SplitFrom(s, sep, cur, acc) ==
    IF s = << >> THEN Append(acc, cur)
    ELSE IF Head(s) = sep THEN SplitFrom(Tail(s), sep, << >>, Append(acc, cur))
    ELSE SplitFrom(Tail(s), sep, Append(cur, Head(s)), acc)

Split(s, sep) == SplitFrom(s, sep, << >>, << >>)

\* strings.Join(parts, sep).
RECURSIVE Join(_, _)
Join(parts, sep) ==
    IF parts = << >> THEN << >>
    ELSE IF Len(parts) = 1 THEN parts[1]
    ELSE parts[1] \o sep \o Join(Tail(parts), sep)

\* path.Clean of a rooted path: empty and "." elements are dropped, ".." removes
\* the element before it (and is dropped at the root); the result has no
\* trailing slash.
RECURSIVE CleanElements(_, _)
CleanElements(parts, acc) ==
    IF parts = << >> THEN acc
    ELSE IF Head(parts) = << >> \/ Head(parts) = << "." >> THEN CleanElements(Tail(parts), acc)
    ELSE IF Head(parts) = << ".", "." >>
        THEN CleanElements(Tail(parts), IF acc = << >> THEN acc ELSE SubSeq(acc, 1, Len(acc) - 1))
    ELSE CleanElements(Tail(parts), Append(acc, Head(parts)))

PathClean(p) == << "/" >> \o Join(CleanElements(Split(p, "/"), << >>), << "/" >>)

(***************************************************************************)
(* Path matcher (app router)                                               *)
(***************************************************************************)

\* dynamicSegmentNamePattern: ^[a-zA-Z][a-zA-Z0-9_]*$
dynamicSegmentNamePattern(name) ==
    /\ name # << >>
    /\ IsLetter(name[1])
    /\ \A i \in 2..Len(name) : IsLetter(name[i]) \/ IsDigit(name[i]) \/ name[i] = "_"

\* slugPattern: ^[a-zA-Z0-9][a-zA-Z0-9_-]*$
\* IsValidSlug without the rule on the first character.
IsValidSlugAnyLead(value) ==
    /\ value # << >>
    /\ \A i \in 1..Len(value) :
          IsLetter(value[i]) \/ IsDigit(value[i]) \/ value[i] = "_" \/ value[i] = "-"

IsValidSlug(value) ==
    /\ value # << >>
    /\ IsLetter(value[1]) \/ IsDigit(value[1])
    /\ \A i \in 2..Len(value) :
          IsLetter(value[i]) \/ IsDigit(value[i]) \/ value[i] = "_" \/ value[i] = "-"

NoError == "nil"

parseWildcardSegmentAllDynamic(segment) ==
    [name |-> segment, isParam |-> TRUE, normalized |-> << "[" >> \o segment \o << "]" >>, err |-> NoError]

\* The runtime router's segment parser: [name] and the legacy _name are both
\* dynamic segments.
parseWildcardSegment(segment) ==
    IF HasPrefix(segment, << "_" >>)
    THEN LET name == TrimSpace(Tail(segment)) IN
         IF ~dynamicSegmentNamePattern(name)
         THEN [name |-> << >>, isParam |-> FALSE, normalized |-> << >>, err |-> "invalid wildcard name"]
         ELSE [name |-> name, isParam |-> TRUE, normalized |-> << "[" >> \o name \o << "]" >>, err |-> NoError]
    ELSE IF HasPrefix(segment, << "[" >>) \/ HasSuffix(segment, << "]" >>)
    THEN IF ~HasPrefix(segment, << "[" >>) \/ ~HasSuffix(segment, << "]" >>)
         THEN [name |-> << >>, isParam |-> FALSE, normalized |-> << >>, err |-> "invalid wildcard segment"]
         ELSE LET name == TrimSpace(SubSeq(segment, 2, Len(segment) - 1)) IN
              IF ~dynamicSegmentNamePattern(name)
              THEN [name |-> << >>, isParam |-> FALSE, normalized |-> << >>, err |-> "invalid wildcard name"]
              ELSE [name |-> name, isParam |-> TRUE, normalized |-> << "[" >> \o name \o << "]" >>, err |-> NoError]
    ELSE IF ContainsAny(segment, {"[", "]"})
    THEN [name |-> << >>, isParam |-> FALSE, normalized |-> << >>, err |-> "invalid static segment"]
    ELSE IF TrimSpace(segment) = << "_" >>
    THEN [name |-> << >>, isParam |-> FALSE, normalized |-> << >>, err |-> "invalid wildcard segment"]
    ELSE [name |-> << >>, isParam |-> FALSE, normalized |-> << >>, err |-> NoError]

splitCleaned(cleaned) ==
    IF cleaned = << "/" >> THEN << >>
    ELSE IF Trim(cleaned, "/") = << >> THEN << >>
    ELSE Split(Trim(cleaned, "/"), "/")

\* The request path is cleaned to its canonical absolute form and split at
\* the slashes; the root has no segments.
splitPathSegments(raw) == splitCleaned(PathClean(<< "/" >> \o TrimSpace(raw)))

\* The loop of matchPathPattern from position idx on; params holds the
\* captures made so far.
RECURSIVE matchSegmentsFrom(_, _, _, _)
matchSegmentsFrom(patternSegments, requestSegments, idx, params) ==
    IF idx > Len(patternSegments) THEN [ok |-> TRUE, params |-> params]
    ELSE LET parsed == parseWildcardSegment(patternSegments[idx]) IN
         IF parsed.err # NoError THEN [ok |-> FALSE, params |-> {}]
         ELSE IF ~parsed.isParam
         THEN IF patternSegments[idx] # requestSegments[idx]
              THEN [ok |-> FALSE, params |-> {}]
              ELSE matchSegmentsFrom(patternSegments, requestSegments, idx + 1, params)
         ELSE matchSegmentsFrom(patternSegments, requestSegments, idx + 1,
                  {p \in params : p.name # parsed.name}
                      \cup {[name |-> parsed.name, value |-> requestSegments[idx]]})

matchSegments(patternSegments, requestSegments) ==
    IF Len(patternSegments) # Len(requestSegments)
    THEN [ok |-> FALSE, params |-> {}]
    ELSE matchSegmentsFrom(patternSegments, requestSegments, 1, {})

\* matchPathPattern(pattern, requestPath): the captured parameters (a map from
\* parameter name to request segment, here the set of its name/value entries)
\* and whether the pattern matched.
matchPathPattern(pattern, requestPath) ==
    matchSegments(splitPathSegments(pattern), splitPathSegments(requestPath))

(***************************************************************************)
(* Route generation (approutegen)                                          *)
(***************************************************************************)

\* A source tree under internal/web/app and internal/web/appcore/resolvers:
\*   pages    the route directories holding a page.templ (a directory is the
\*            sequence of its path elements, the root is << >>)
\*   layouts  the route directories holding a layout.templ
\*   types[d] what the resolver types.go of page directory d declares
\*   stubs    the page directories whose resolver.go already exists
TypesMissing == "missing"
TypesNoPageView == "no PageView"
TypesPageView == "PageView"
TypesPageViewLiveState == "PageView+LiveState"

pageTemplate == "page"
layoutTemplate == "layout"

fileNameOf(kind) ==
    IF kind = pageTemplate
    THEN << "p", "a", "g", "e", ".", "t", "e", "m", "p", "l" >>
    ELSE << "l", "a", "y", "o", "u", "t", ".", "t", "e", "m", "p", "l" >>

\* routeSegment: exactly one of StaticName and ParamName is set.
IsParam(segment) == segment.ParamName # << >>

RoutePart(segment) ==
    IF IsParam(segment) THEN << "[" >> \o segment.ParamName \o << "]" >> ELSE segment.StaticName

NoSegment == [StaticName |-> << >>, ParamName |-> << >>]

\* parseRouteSegment that takes the legacy _name form for a parameter, as
\* the runtime router's parseWildcardSegment does.
parseRouteSegmentLegacyAsParam(part) ==
    LET trimmed == TrimSpace(part) IN
    IF HasPrefix(trimmed, << "_" >>) /\ Len(trimmed) > 1
    THEN [segment |-> [StaticName |-> << >>, ParamName |-> SubSeq(trimmed, 2, Len(trimmed))], err |-> NoError]
    ELSE [segment |-> [StaticName |-> trimmed, ParamName |-> << >>], err |-> NoError]

\* The generator's segment parser: [name] is dynamic, the legacy _name form
\* is an error.
parseRouteSegment(part) ==
    LET trimmed == TrimSpace(part) IN
    IF trimmed = << >>
    THEN [segment |-> NoSegment, err |-> "route segment cannot be empty"]
    ELSE IF HasPrefix(trimmed, << "[" >>) \/ HasSuffix(trimmed, << "]" >>)
    THEN IF ~HasPrefix(trimmed, << "[" >>) \/ ~HasSuffix(trimmed, << "]" >>)
         THEN [segment |-> NoSegment, err |-> "invalid wildcard segment"]
         ELSE LET name == TrimSpace(SubSeq(trimmed, 2, Len(trimmed) - 1)) IN
              IF ~dynamicSegmentNamePattern(name)
              THEN [segment |-> NoSegment, err |-> "invalid wildcard name"]
              ELSE [segment |-> [StaticName |-> << >>, ParamName |-> name], err |-> NoError]
    ELSE IF HasPrefix(trimmed, << "_" >>)
    THEN [segment |-> NoSegment, err |-> "legacy wildcard segment is not allowed; use [param] directories"]
    ELSE IF ContainsAny(trimmed, {"[", "]"})
    THEN [segment |-> NoSegment, err |-> "invalid static segment"]
    ELSE [segment |-> [StaticName |-> trimmed, ParamName |-> << >>], err |-> NoError]

RECURSIVE parseRouteParts(_, _)
parseRouteParts(parts, acc) ==
    IF parts = << >> THEN [segments |-> acc, err |-> NoError]
    ELSE LET parsed == parseRouteSegment(Head(parts)) IN
         IF parsed.err # NoError THEN [segments |-> << >>, err |-> parsed.err]
         ELSE parseRouteParts(Tail(parts), Append(acc, parsed.segment))

parseRouteSegments(routeDir) ==
    IF TrimSpace(routeDir) = << >> THEN [segments |-> << >>, err |-> NoError]
    ELSE parseRouteParts(Split(routeDir, "/"), << >>)

routeIDFromSegments(segments) ==
    IF Len(segments) = 0 THEN << >>
    ELSE Join([i \in 1..Len(segments) |-> RoutePart(segments[i])], << "/" >>)

routePattern(routeID) == IF routeID = << >> THEN << "/" >> ELSE << "/" >> \o routeID

\* The order in which filepath.WalkDir visits files: path elements compared
\* one by one, each in byte order.
RECURSIVE walkBefore(_, _)
walkBefore(a, b) ==
    IF b = << >> THEN FALSE
    ELSE IF a = << >> THEN TRUE
    ELSE IF Head(a) # Head(b) THEN StrLess(Head(a), Head(b))
    ELSE walkBefore(Tail(a), Tail(b))

walkPath(file) == Append(file.dir, fileNameOf(file.Kind))

RECURSIVE walkOrder(_)
walkOrder(files) ==
    IF files = {} THEN << >>
    ELSE LET first == CHOOSE f \in files : \A g \in files \ {f} : walkBefore(walkPath(f), walkPath(g))
         IN << first >> \o walkOrder(files \ {first})

\* The template files of a tree in walk order.
walkFiles(tree) ==
    walkOrder({[Kind |-> pageTemplate, dir |-> d] : d \in tree.pages}
                 \cup {[Kind |-> layoutTemplate, dir |-> d] : d \in tree.layouts})

(***************************************************************************)
(* Route table of the app router (NewAppRouter)                            *)
(***************************************************************************)

pageTemplateName == fileNameOf(pageTemplate)

NoAppRoute == [id |-> << >>, segments |-> << >>, staticCount |-> 0, patternKey |-> << >>]

\* The loop of parseAppRoute over the path parts: a dynamic part contributes
\* ":" to the pattern key, whatever its name.
RECURSIVE parseAppRouteParts(_, _, _)
parseAppRouteParts(parts, idx, acc) ==
    IF idx > Len(parts) THEN [route |-> acc, err |-> NoError]
    ELSE LET part == parts[idx]
             parsed == parseWildcardSegment(part)
         IN IF TrimSpace(part) = << >> THEN [route |-> NoAppRoute, err |-> "empty path segment"]
            ELSE IF parsed.err # NoError THEN [route |-> NoAppRoute, err |-> parsed.err]
            ELSE IF parsed.isParam
            THEN parseAppRouteParts(parts, idx + 1,
                     [id |-> Append(acc.id, parsed.normalized),
                      segments |-> Append(acc.segments, [name |-> parsed.name, isParam |-> TRUE]),
                      staticCount |-> acc.staticCount,
                      patternKey |-> Append(acc.patternKey, << ":" >>)])
            ELSE parseAppRouteParts(parts, idx + 1,
                     [id |-> Append(acc.id, part),
                      segments |-> Append(acc.segments, [name |-> part, isParam |-> FALSE]),
                      staticCount |-> acc.staticCount + 1,
                      patternKey |-> Append(acc.patternKey, part)])

\* parseAppRoute(relPath): the route of a page.templ path relative to the root.
parseAppRoute(relPath) ==
    LET cleaned == Tail(PathClean(<< "/" >> \o TrimSpace(relPath)))
        suffix == << "/" >> \o pageTemplateName
        id == IF cleaned = pageTemplateName THEN << >>
              ELSE SubSeq(cleaned, 1, Len(cleaned) - Len(suffix))
        parts == IF id = << >> THEN << >> ELSE Split(id, "/")
        parsed == parseAppRouteParts(parts, 1, NoAppRoute)
    IN IF cleaned = << >> THEN [route |-> NoAppRoute, err |-> "route path cannot be empty"]
       ELSE IF cleaned # pageTemplateName /\ ~HasSuffix(cleaned, suffix)
       THEN [route |-> NoAppRoute, err |-> "route file must end with /page.templ"]
       ELSE IF parsed.err # NoError THEN parsed
       ELSE [route |-> [id |-> Join(parsed.route.id, << "/" >>),
                        segments |-> parsed.route.segments,
                        staticCount |-> parsed.route.staticCount,
                        patternKey |-> << "/" >> \o Join(parsed.route.patternKey, << "/" >>)],
             err |-> NoError]

RoutePatternConflict == "route pattern conflict"

\* The walk callback of NewAppRouter for the files from position idx on.
RECURSIVE appRoutesFrom(_, _, _)
appRoutesFrom(files, idx, routes) ==
    IF idx > Len(files) THEN [routes |-> routes, err |-> NoError]
    ELSE IF files[idx].Kind # pageTemplate THEN appRoutesFrom(files, idx + 1, routes)
    ELSE LET parsed == parseAppRoute(Join(walkPath(files[idx]), << "/" >>)) IN
         IF parsed.err # NoError THEN [routes |-> << >>, err |-> parsed.err]
         ELSE IF \E i \in DOMAIN routes : routes[i].patternKey = parsed.route.patternKey
         THEN [routes |-> << >>, err |-> RoutePatternConflict]
         ELSE appRoutesFrom(files, idx + 1, Append(routes, parsed.route))

appRouteBeforeById(left, right) == StrLess(left.id, right.id)

\* The order of the route table: more static segments first, then more
\* segments, then the route id.
appRouteBefore(left, right) ==
    IF left.staticCount # right.staticCount THEN left.staticCount > right.staticCount
    ELSE IF Len(left.segments) # Len(right.segments) THEN Len(left.segments) > Len(right.segments)
    ELSE StrLess(left.id, right.id)

sortAppRoutes(walked) ==
    IF walked.err # NoError THEN walked
    ELSE IF Len(walked.routes) = 0 THEN [routes |-> << >>, err |-> "no page.templ routes found"]
    ELSE [routes |-> SortSeq(walked.routes, appRouteBefore), err |-> NoError]

NewAppRouter(tree) == sortAppRoutes(appRoutesFrom(walkFiles(tree), 1, << >>))

\* The inner loop of AppRouter.Match over the segments of one route; params
\* holds the captures made so far.
RECURSIVE matchRouteFrom(_, _, _, _)
matchRouteFrom(segments, requestSegments, idx, params) ==
    IF idx > Len(segments) THEN [ok |-> TRUE, params |-> params]
    ELSE IF segments[idx].isParam
    THEN matchRouteFrom(segments, requestSegments, idx + 1,
             {p \in params : p.name # segments[idx].name}
                 \cup {[name |-> segments[idx].name, value |-> requestSegments[idx]]})
    ELSE IF segments[idx].name # requestSegments[idx] THEN [ok |-> FALSE, params |-> {}]
    ELSE matchRouteFrom(segments, requestSegments, idx + 1, params)

NoRouteMatch == [ok |-> FALSE, ID |-> << >>, Params |-> {}]

\* The outer loop of AppRouter.Match: the first route of the table whose
\* segments match.
RECURSIVE matchRoutesFrom(_, _, _)
routeTried(routes, requestSegments, idx, tried) ==
    IF ~tried.ok THEN matchRoutesFrom(routes, requestSegments, idx + 1)
    ELSE [ok |-> TRUE, ID |-> routes[idx].id, Params |-> tried.params]

matchRoutesFrom(routes, requestSegments, idx) ==
    IF idx > Len(routes) THEN NoRouteMatch
    ELSE IF Len(routes[idx].segments) # Len(requestSegments)
    THEN matchRoutesFrom(routes, requestSegments, idx + 1)
    ELSE routeTried(routes, requestSegments, idx,
                    matchRouteFrom(routes[idx].segments, requestSegments, 1, {}))

\* AppRouter.Match
Match(router, requestPath) == matchRoutesFrom(router.routes, splitPathSegments(requestPath), 1)

(***************************************************************************)
(* Route discovery and metadata (approutegen)                              *)
(***************************************************************************)

\* The walk callback of discoverRouteFiles for the files from position idx on.
RECURSIVE discoverFrom(_, _, _)
discoverFrom(files, idx, acc) ==
    IF idx > Len(files) THEN acc
    ELSE LET file == files[idx]
             parsed == parseRouteSegments(Join(file.dir, << "/" >>))
             tpl == [Kind |-> file.Kind,
                     RouteID |-> routeIDFromSegments(parsed.segments),
                     SourcePath |-> file.dir,
                     Segments |-> parsed.segments]
         IN IF parsed.err # NoError
            THEN [err |-> parsed.err, Pages |-> << >>, Layouts |-> {}]
            ELSE discoverFrom(files, idx + 1,
                    [err |-> NoError,
                     Pages |-> IF file.Kind = pageTemplate THEN Append(acc.Pages, tpl) ELSE acc.Pages,
                     Layouts |-> IF file.Kind = layoutTemplate
                                 THEN {l \in acc.Layouts : l.RouteID # tpl.RouteID} \cup {tpl}
                                 ELSE acc.Layouts])

sortDiscovered(walked) ==
    IF walked.err # NoError THEN walked
    ELSE [walked EXCEPT !.Pages = SortSeq(walked.Pages, LAMBDA l, r : StrLess(l.RouteID, r.RouteID))]

\* discoverRouteFiles: the pages sorted by RouteID, and the layouts, a map
\* keyed by RouteID (here the set of its values, at most one per RouteID).
discoverRouteFiles(tree) ==
    sortDiscovered(discoverFrom(walkFiles(tree), 1, [err |-> NoError, Pages |-> << >>, Layouts |-> {}]))

IsAlnum(c) == IsLetter(c) \/ IsDigit(c)

ToUpperChar(c) == IF c \in LowerLetters THEN AsciiOrder[Ord(c) - Ord("a") + Ord("A")] ELSE c

ToLowerChar(c) == IF c \in UpperLetters THEN AsciiOrder[Ord(c) - Ord("A") + Ord("a")] ELSE c

ToLower(s) == [i \in 1..Len(s) |-> ToLowerChar(s[i])]

\* strings.Fields: the maximal runs of non-blank characters.
Fields(s) == SelectSeq(Split(s, " "), LAMBDA part : part # << >>)

RECURSIVE pascalParts(_)
pascalParts(parts) ==
    IF parts = << >> THEN << >>
    ELSE << ToUpperChar(Head(parts)[1]) >> \o ToLower(Tail(Head(parts))) \o pascalParts(Tail(parts))

pascalToken(value) ==
    LET trimmed == TrimSpace(value)
        normalized == [i \in 1..Len(trimmed) |-> IF IsAlnum(trimmed[i]) THEN trimmed[i] ELSE " "]
    IN pascalParts(Fields(normalized))

IdentValue == << "v", "a", "l", "u", "e" >>

safeIdentifier(value) ==
    LET trimmed == TrimSpace(value)
        mapped == [i \in 1..Len(trimmed) |-> IF IsAlnum(trimmed[i]) THEN trimmed[i] ELSE "_"]
        normalized == Trim(mapped, "_")
    IN IF trimmed = << >> THEN IdentValue
       ELSE IF normalized = << >> THEN IdentValue
       ELSE ToLower(normalized)

SafePart(segment) ==
    IF IsParam(segment)
    THEN << "p", "a", "r", "a", "m", "_" >> \o ToLower(segment.ParamName)
    ELSE safeIdentifier(segment.StaticName)

IdentRoot == << "r", "o", "o", "t" >>

routeSafeKey(segments) ==
    IF Len(segments) = 0 THEN IdentRoot
    ELSE Join([i \in 1..Len(segments) |-> SafePart(segments[i])], << "_" >>)

moduleNameFor(kind, segments) ==
    << "r", "_" >> \o (IF kind = pageTemplate THEN << "p", "a", "g", "e" >> ELSE << "l", "a", "y", "o", "u", "t" >>)
        \o << "_" >> \o routeSafeKey(segments)

RECURSIVE routeNameParts(_)
routeNameParts(segments) ==
    IF segments = << >> THEN << >>
    ELSE (IF IsParam(Head(segments))
          THEN << "P", "a", "r", "a", "m" >> \o pascalToken(Head(segments).ParamName)
          ELSE pascalToken(Head(segments).StaticName))
         \o routeNameParts(Tail(segments))

routeNameFromSegments(segments) ==
    IF Len(segments) = 0 THEN << "R", "o", "o", "t" >>
    ELSE IF routeNameParts(segments) = << >> THEN << "R", "o", "o", "t" >>
    ELSE routeNameParts(segments)

\* routeParamsFromSegments: one parameter per dynamic segment, in path order.
RECURSIVE routeParamsFrom(_, _)
routeParamsFrom(segments, acc) ==
    IF segments = << >> THEN [params |-> acc, err |-> NoError]
    ELSE IF ~IsParam(Head(segments)) THEN routeParamsFrom(Tail(segments), acc)
    ELSE LET fieldName == pascalToken(Head(segments).ParamName) IN
         IF fieldName = << >> THEN [params |-> << >>, err |-> "invalid param name"]
         ELSE IF \E i \in DOMAIN acc : acc[i].FieldName = fieldName
         THEN [params |-> << >>, err |-> "duplicate param field"]
         ELSE routeParamsFrom(Tail(segments),
                  Append(acc, [Name |-> Head(segments).ParamName, FieldName |-> fieldName]))

routeParamsFromSegments(segments) == routeParamsFrom(segments, << >>)

typesFileName == << "t", "y", "p", "e", "s", ".", "g", "o" >>

\* resolverRelativePath: the directory of a route's resolver package below
\* the resolver root.
resolverRelativePath(segments) ==
    IF Len(segments) = 0 THEN IdentRoot
    ELSE Join([i \in 1..Len(segments) |->
                  IF IsParam(segments[i])
                  THEN << "p", "a", "r", "a", "m", "_" >> \o ToLower(segments[i].ParamName)
                  ELSE segments[i].StaticName], << "/" >>)

\* The types.go path of a route, relative to the resolver root.
resolverTypesPath(segments) == resolverRelativePath(segments) \o << "/" >> \o typesFileName

PageViewTypeName == << "P", "a", "g", "e", "V", "i", "e", "w" >>

\* An error of readResolverTypes is its message and, in args, the names the
\* message carries: the types.go path, and the type that is not declared.
readResolverTypesIgnoringPageView(typesPath, declared) ==
    IF declared = TypesMissing
    THEN [HasLiveState |-> FALSE, err |-> "required resolver type file missing", args |-> << typesPath >>]
    ELSE [HasLiveState |-> (declared = TypesPageViewLiveState), err |-> NoError, args |-> << >>]

\* readResolverTypes, by what the types file at typesPath declares.
readResolverTypes(typesPath, declared) ==
    IF declared = TypesMissing
    THEN [HasLiveState |-> FALSE, err |-> "required resolver type file missing", args |-> << typesPath >>]
    ELSE IF declared = TypesNoPageView
    THEN [HasLiveState |-> FALSE, err |-> "must declare type", args |-> << typesPath, PageViewTypeName >>]
    ELSE [HasLiveState |-> (declared = TypesPageViewLiveState), err |-> NoError, args |-> << >>]

\* The id of the data-signals container of every page template of the
\* modelled trees, as extractLiveSelectorID reads it.
ContainerID == << "f", "e", "e", "d" >>

\* An error of buildRouteMetas carries, in args, the route id before the
\* names of the error it wraps.
RECURSIVE buildMetasFrom(_, _, _, _)
buildMetasFrom(pages, tree, idx, acc) ==
    IF idx > Len(pages) THEN [metas |-> acc, err |-> NoError, args |-> << >>]
    ELSE LET page == pages[idx]
             typeDecl == readResolverTypes(resolverTypesPath(page.Segments), tree.types[page.SourcePath])
             params == routeParamsFromSegments(page.Segments)
         IN IF typeDecl.err # NoError
            THEN [metas |-> << >>, err |-> typeDecl.err, args |-> << page.RouteID >> \o typeDecl.args]
            ELSE IF params.err # NoError THEN [metas |-> << >>, err |-> params.err, args |-> << >>]
            ELSE buildMetasFrom(pages, tree, idx + 1,
                    Append(acc, [RouteID |-> page.RouteID,
                                 Segments |-> page.Segments,
                                 RouteName |-> routeNameFromSegments(page.Segments),
                                 Params |-> params.params,
                                 Page |-> page,
                                 ResolverAlias |-> << "r", "r", "_" >> \o routeSafeKey(page.Segments),
                                 HasLive |-> typeDecl.HasLiveState,
                                 LiveSelectorID |-> IF typeDecl.HasLiveState THEN ContainerID ELSE << >>]))

\* The order in which buildRouteMetas leaves the route metadata.
metaBefore(left, right) == StrLess(left.RouteID, right.RouteID)

sortMetas(built) ==
    IF built.err # NoError THEN built
    ELSE [built EXCEPT !.metas = SortSeq(built.metas, metaBefore)]

buildRouteMetas(pages, tree) == sortMetas(buildMetasFrom(pages, tree, 1, << >>))

\* layoutChain that takes every prefix of the route id as a candidate, also
\* one that ends inside a segment.
layoutChainByStringPrefix(routeID, layouts) ==
    LET candidates == [n \in 1..(Len(routeID) + 1) |-> SubSeq(routeID, 1, n - 1)]
        found == SelectSeq(candidates, LAMBDA candidate : \E l \in layouts : l.RouteID = candidate)
    IN [i \in 1..Len(found) |-> CHOOSE l \in layouts : l.RouteID = found[i]]

\* layoutChain: the layouts found at the root and at every path prefix of the
\* route id, root first.
layoutChain(routeID, layouts) ==
    LET segments == IF routeID # << >> THEN Split(routeID, "/") ELSE << >>
        candidates == << << >> >> \o [idx \in 1..Len(segments) |-> Join(SubSeq(segments, 1, idx), << "/" >>)]
        found == SelectSeq(candidates, LAMBDA candidate : \E l \in layouts : l.RouteID = candidate)
    IN [i \in 1..Len(found) |-> CHOOSE l \in layouts : l.RouteID = found[i]]

\* Reading a Go map[string]string: the value of an absent key is "".
paramValue(params, name) ==
    IF \E p \in params : p.name = name THEN (CHOOSE p \in params : p.name = name).value ELSE << >>

ParamSlug == << "s", "l", "u", "g" >>

LiveSuffix == << "/", "l", "i", "v", "e" >>

\* A message is a sequence of text runs; a blank is always a run of its own,
\* so that TrimSpace acts on it as on a string.
defaultLiveBadRequestMessage == << "invalid datastar signal payload" >>

\* The body of a generated parse<Route>Params function for the given pattern
\* and parameters, applied to a request path.
RECURSIVE parseParamsFrom(_, _, _, _)
parseParamsFrom(captured, params, idx, out) ==
    IF idx > Len(params) THEN [ok |-> TRUE, params |-> out]
    ELSE LET value == TrimSpace(paramValue(captured, params[idx].Name)) IN
         IF params[idx].Name = ParamSlug /\ ~IsValidSlug(value) THEN [ok |-> FALSE, params |-> {}]
         ELSE parseParamsFrom(captured, params, idx + 1,
                  {p \in out : p.name # params[idx].FieldName}
                      \cup {[name |-> params[idx].FieldName, value |-> value]})

parseMatchedAnyPath(parser, matched) == [ok |-> TRUE, params |-> matched.params]

\* The generated parser after the pattern was matched: no match is no parse.
parseMatched(parser, matched) ==
    IF ~matched.ok THEN [ok |-> FALSE, params |-> {}]
    ELSE parseParamsFrom(matched.params, parser.params, 1, {})

writeParseParamsFunc(parser, requestPath) ==
    parseMatched(parser, matchPathPattern(parser.pattern, requestPath))

PageOnlyRouteHandler == "PageOnlyRouteHandler"
PageAndLiveRouteHandler == "PageAndLiveRouteHandler"

\* A page-only handler has no live module; its Live field is this filler.
NoLiveModule ==
    [Pattern |-> << >>, ParseParams |-> [pattern |-> << >>, params |-> << >>],
     SelectorID |-> << >>, BadRequestMessage |-> << >>]

\* writePageModule: a layout renderer is named by the module name of the
\* layout template it calls.
writePageModule(meta, layouts) ==
    LET chain == layoutChain(meta.RouteID, layouts) IN
    [Pattern |-> routePattern(meta.RouteID),
     ParseParams |-> [pattern |-> routePattern(meta.RouteID), params |-> meta.Params],
     Render |-> moduleNameFor(pageTemplate, meta.Segments),
     Layouts |-> [i \in 1..Len(chain) |-> moduleNameFor(layoutTemplate, chain[i].Segments)]]

writeLiveModule(meta) ==
    [Pattern |-> routePattern(meta.RouteID) \o LiveSuffix,
     ParseParams |-> [pattern |-> routePattern(meta.RouteID) \o LiveSuffix, params |-> meta.Params],
     SelectorID |-> meta.LiveSelectorID,
     BadRequestMessage |-> defaultLiveBadRequestMessage]

\* registryHandlers that writes a live module for every route.
registryHandlersAllLive(metas, layouts) ==
    [i \in 1..Len(metas) |->
        [kind |-> PageAndLiveRouteHandler,
         Page |-> writePageModule(metas[i], layouts),
         Live |-> writeLiveModule(metas[i])]]

\* The handler list of the generated Handlers function, one entry per route
\* in the order of metas.
registryHandlers(metas, layouts) ==
    [i \in 1..Len(metas) |->
        [kind |-> IF metas[i].HasLive THEN PageAndLiveRouteHandler ELSE PageOnlyRouteHandler,
         Page |-> writePageModule(metas[i], layouts),
         Live |-> IF metas[i].HasLive THEN writeLiveModule(metas[i]) ELSE NoLiveModule]]

\* collectLayoutWrappers: one wrapper per (route, ancestor layout), keyed by
\* its generated name; the same name with another view alias or layout
\* module is a conflict.
wrapperFuncName(routeName, layoutName) ==
    << "w", "r", "a", "p" >> \o routeName \o << "W", "i", "t", "h" >> \o layoutName
        \o << "L", "a", "y", "o", "u", "t" >>

wrapperDefs(metas, layouts) ==
    UNION {
        LET chain == layoutChain(metas[i].RouteID, layouts) IN
        {[Name |-> wrapperFuncName(metas[i].RouteName, routeNameFromSegments(chain[j].Segments)),
          ViewAlias |-> metas[i].ResolverAlias,
          LayoutModule |-> moduleNameFor(layoutTemplate, chain[j].Segments)] : j \in 1..Len(chain)}
        : i \in 1..Len(metas) }

collectLayoutWrappers(metas, layouts) ==
    LET defs == wrapperDefs(metas, layouts) IN
    IF \E d1, d2 \in defs : d1.Name = d2.Name /\ d1 # d2
    THEN [wrappers |-> {}, err |-> "layout wrapper conflict"]
    ELSE [wrappers |-> defs, err |-> NoError]

\* generateRegistrySource: the registry text, by what it declares.
generateRegistrySource(metas, layouts) ==
    LET collected == collectLayoutWrappers(metas, layouts) IN
    IF collected.err # NoError THEN [source |-> << >>, err |-> collected.err]
    ELSE [source |-> registryHandlers(metas, layouts), err |-> NoError]

\* generateContractsSource and generateResolversSource, by what they declare:
\* per route its parameter struct and its resolver methods, in the order of
\* metas.
generateContractsSource(metas) ==
    [i \in 1..Len(metas) |->
        [ParamsTypeName |-> metas[i].RouteName \o << "P", "a", "r", "a", "m", "s" >>,
         Fields |-> [j \in 1..Len(metas[i].Params) |-> metas[i].Params[j].FieldName],
         HasLive |-> metas[i].HasLive]]

generateResolversSource(metas) ==
    [i \in 1..Len(metas) |-> [ResolverAlias |-> metas[i].ResolverAlias, HasLive |-> metas[i].HasLive]]

\* The files of the generated output root: a template copy per template, and
\* the three generated sources.
templateCopy(tpl) ==
    [file |-> tpl.Kind, module |-> moduleNameFor(tpl.Kind, tpl.Segments), content |-> << [RouteID |-> tpl.RouteID] >>]

genFile(name, content) == [file |-> name, module |-> << >>, content |-> content]

\* os.WriteFile: the file is created or replaced.
writeFile(files, f) == {g \in files : ~(g.file = f.file /\ g.module = f.module)} \cup {f}

StubSource == "generated stub"
HandWritten == "hand-written"

\* The error a stub method returns.
notImplemented(method, pattern) == [label |-> "TODO: implement", method |-> method, route |-> pattern]

\* generateRouteResolverStubSource: the Params fields and the methods of the
\* routeResolver interface, each returning its not-implemented error.
generateRouteResolverStubSource(meta) ==
    [origin |-> StubSource,
     params |-> [i \in 1..Len(meta.Params) |-> meta.Params[i].FieldName],
     methods |-> << [name |-> "ResolvePage", returns |-> notImplemented("ResolvePage", routePattern(meta.RouteID))] >>
                 \o (IF meta.HasLive
                     THEN << [name |-> "ParseLiveState",
                              returns |-> notImplemented("ParseLiveState", routePattern(meta.RouteID))],
                             [name |-> "ResolveLive",
                              returns |-> notImplemented("ResolveLive", routePattern(meta.RouteID))] >>
                     ELSE << >>)]

\* ensureRouteResolverStub that writes the stub over an existing file.
ensureRouteResolverStubOverwriting(resolvers, meta) ==
    {f \in resolvers : f.dir # resolverRelativePath(meta.Segments)}
        \cup {[dir |-> resolverRelativePath(meta.Segments), content |-> generateRouteResolverStubSource(meta)]}

\* ensureRouteResolverStub: nothing is done when resolver.go exists in the
\* resolver directory of the route, a stub is written when it does not.
ensureRouteResolverStub(resolvers, meta) ==
    IF \E f \in resolvers : f.dir = resolverRelativePath(meta.Segments) THEN resolvers
    ELSE resolvers
            \cup {[dir |-> resolverRelativePath(meta.Segments), content |-> generateRouteResolverStubSource(meta)]}

\* The loop of Run over the routes, in the order of metas.
RECURSIVE ensureRouteResolverStubs(_, _)
ensureRouteResolverStubs(resolvers, metas) ==
    IF metas = << >> THEN resolvers
    ELSE ensureRouteResolverStubs(ensureRouteResolverStub(resolvers, Head(metas)), Tail(metas))

\* The template copies Run leaves in the emptied output root.
templateCopies(routes) ==
    {templateCopy(routes.Pages[i]) : i \in 1..Len(routes.Pages)} \cup {templateCopy(l) : l \in routes.Layouts}

\* Run from the registry source on: registry_gen.go, the resolver stubs and
\* resolvers_gen.go.
runFromRegistry(fs, metas, withContracts, registry) ==
    IF registry.err # NoError
    THEN [err |-> registry.err, fs |-> [fs EXCEPT !.gen = withContracts]]
    ELSE [err |-> NoError,
          fs |-> [gen |-> writeFile(writeFile(withContracts, genFile("registry_gen.go", registry.source)),
                                    genFile("resolvers_gen.go", generateResolversSource(metas))),
                  resolvers |-> ensureRouteResolverStubs(fs.resolvers, metas)]]

\* Run from the route metadata on: the output root is emptied, the templates
\* are copied and contracts_gen.go is written before the registry source is
\* generated.
runFromMetas(fs, routes, built) ==
    IF built.err # NoError THEN [err |-> built.err, fs |-> fs]
    ELSE runFromRegistry(fs, built.metas,
             writeFile(templateCopies(routes), genFile("contracts_gen.go", generateContractsSource(built.metas))),
             generateRegistrySource(built.metas, routes.Layouts))

\* Run from the discovered route files on.
runFromRoutes(tree, fs, routes) ==
    IF routes.err # NoError THEN [err |-> routes.err, fs |-> fs]
    ELSE IF Len(routes.Pages) = 0 THEN [err |-> "no page.templ files found", fs |-> fs]
    ELSE runFromMetas(fs, routes, buildRouteMetas(routes.Pages, tree))

\* Run: one generation run over the tree, from the files on disk (fs.gen the
\* generated output root, fs.resolvers the resolver.go files) to the error it
\* returns and the files it leaves.
Run(tree, fs) == runFromRoutes(tree, fs, discoverRouteFiles(tree))

(***************************************************************************)
(* The emitted sources as text: import lines and wrapper functions         *)
(***************************************************************************)

\* Ranging over a Go map visits every key once, in an order the language
\* leaves open: every enumeration of the key set is possible.
mapOrders(keys) ==
    {order \in [1..Cardinality(keys) -> keys] : \A k \in keys : \E i \in DOMAIN order : order[i] = k}

\* sort.Strings
sortStrings(values) == SortSeq(values, StrLess)

RECURSIVE dedupeFrom(_, _, _, _)
dedupeFrom(values, idx, previous, out) ==
    IF idx > Len(values) THEN out
    ELSE IF idx > 1 /\ values[idx] = previous THEN dedupeFrom(values, idx + 1, previous, out)
    ELSE dedupeFrom(values, idx + 1, values[idx], Append(out, values[idx]))

dedupeSorted(values) == dedupeFrom(sortStrings(values), 1, << >>, << >>)

\* The resolver imports of generateContractsSource: one line per resolver
\* alias, in the order of metas, then sorted.
RECURSIVE resolverImportsFrom(_, _, _)
resolverImportsFrom(metas, idx, out) ==
    IF idx > Len(metas) THEN out
    ELSE IF \E i \in DOMAIN out : out[i] = metas[idx].ResolverAlias
    THEN resolverImportsFrom(metas, idx + 1, out)
    ELSE resolverImportsFrom(metas, idx + 1, Append(out, metas[idx].ResolverAlias))

contractsImports(metas) == sortStrings(resolverImportsFrom(metas, 1, << >>))

\* The module imports of generateRegistrySource: per route its page module
\* and its resolver alias, then the layout modules by sorted layout key.
\* layoutOrder is the order in which the layouts map was ranged over.
RECURSIVE metaImports(_)
metaImports(metas) ==
    IF metas = << >> THEN << >>
    ELSE << moduleNameFor(pageTemplate, Head(metas).Page.Segments), Head(metas).ResolverAlias >>
             \o metaImports(Tail(metas))

layoutImports(layouts, layoutKeys) ==
    [i \in 1..Len(layoutKeys) |->
        moduleNameFor(layoutTemplate, (CHOOSE l \in layouts : l.RouteID = layoutKeys[i]).Segments)]

registryImports(metas, layouts, layoutOrder) ==
    dedupeSorted(metaImports(metas) \o layoutImports(layouts, sortStrings(layoutOrder)))

\* The wrapper functions of generateRegistrySource, by sorted wrapper name.
\* wrapperOrder is the order in which the wrappers map was ranged over.
wrapperNamesInMapOrder(wrapperOrder) == wrapperOrder

\* The wrapper names are sorted before the functions are written.
sortedWrapperNames(wrapperOrder) == sortStrings(wrapperOrder)

registryWrappers(wrappers, wrapperOrder) ==
    [i \in 1..Len(wrapperOrder) |->
        CHOOSE d \in wrappers : d.Name = sortedWrapperNames(wrapperOrder)[i]]

\* The whole text of generateRegistrySource for one way of ranging over its
\* two maps.
registrySourceText(metas, layouts, collected, layoutOrder, wrapperOrder) ==
    IF collected.err # NoError THEN [err |-> collected.err]
    ELSE [err |-> NoError,
          imports |-> registryImports(metas, layouts, layoutOrder),
          handlers |-> registryHandlers(metas, layouts),
          wrappers |-> registryWrappers(collected.wrappers, wrapperOrder)]

\* The whole text of generateContractsSource.
contractsSourceText(metas) == [imports |-> contractsImports(metas), types |-> generateContractsSource(metas)]

(***************************************************************************)
(* HTTP server adapter (httpserver): the response writer and the callbacks *)
(***************************************************************************)

\* An http.ResponseWriter: status 0 until the header is written; headers set
\* after that are not sent; the first write sends status 200.
NewResponse == [status |-> 0, cacheControl |-> << >>, contentType |-> "", body |-> << >>]

WriteHeader(w, statusCode) == IF w.status # 0 THEN w ELSE [w EXCEPT !.status = statusCode]

Write(w, data) == [WriteHeader(w, 200) EXCEPT !.body = @ \o data]

SetContentType(w, value) == IF w.status # 0 THEN w ELSE [w EXCEPT !.contentType = value]

setCachePolicy(w, policy) ==
    IF TrimSpace(policy) = << >> THEN w
    ELSE IF w.status # 0 THEN w
    ELSE [w EXCEPT !.cacheControl = TrimSpace(policy)]

StatusBadRequest == 400
StatusNotFound == 404
StatusInternalServerError == 500

StatusText(code) ==
    IF code = StatusInternalServerError THEN << "Internal Server Error" >>
    ELSE IF code = StatusNotFound THEN << "Not Found" >>
    ELSE << "Bad Request" >>

\* http.Error: a plain-text body with the given status.
httpError(w, message, code) ==
    Write(WriteHeader(SetContentType(w, "text/plain; charset=utf-8"), code),
          << [t |-> "text", v |-> message] >>)

httpNotFound(w) == httpError(w, << "404 page not found" >>, StatusNotFound)

\* A component is the sequence of the pieces it renders.  A failing Render
\* may have written a part of them before it failed.
textComponent(value) == << [t |-> "text", v |-> value] >>

wrapComponent(tag, child) == << [t |-> "open", v |-> tag] >> \o child \o << [t |-> "close", v |-> tag] >>

componentRender(w, component, outcome) ==
    IF outcome.err = NoError THEN Write(w, component)
    ELSE IF outcome.partial /\ component # << >> THEN Write(w, << Head(component) >>)
    ELSE w

\* What one request's exchange carries along: the response writer and the
\* record of the calls made for the request.
Emit(x, event) == [x EXCEPT !.log = Append(@, event)]

\* handleServerError that answers with the text of the error.
handleServerErrorLeaking(srv, x, err) ==
    LET w1 == httpError(setCachePolicy(x.w, srv.cachePolicies.Error),
                        << err.msg, err.cause >>, StatusInternalServerError)
    IN Emit([x EXCEPT !.w = w1],
            [op |-> IF srv.logServerErr THEN "logServerErr" ELSE "log.Printf", err |-> err])

handleServerError(srv, x, err) ==
    LET w1 == httpError(setCachePolicy(x.w, srv.cachePolicies.Error),
                        StatusText(StatusInternalServerError), StatusInternalServerError)
    IN Emit([x EXCEPT !.w = w1],
            [op |-> IF srv.logServerErr THEN "logServerErr" ELSE "log.Printf", err |-> err])

handleBadRequest(srv, x, message) ==
    [x EXCEPT !.w = httpError(setCachePolicy(x.w, srv.cachePolicies.Error), message, StatusBadRequest)]

renderPageWithStatus(x, component, statusCode, cachePolicy, outcome) ==
    LET w1 == SetContentType(setCachePolicy(x.w, cachePolicy), "text/html; charset=utf-8")
        w2 == IF statusCode > 0 THEN WriteHeader(w1, statusCode) ELSE w1
    IN [x EXCEPT !.w = componentRender(w2, component, outcome)]

renderPage(srv, x, component, outcome) ==
    renderPageWithStatus(x, component, 0, srv.cachePolicies.HTML, outcome)

liveNavigationMarkerValue == << "navigation" >>

liveCachePolicyFor(srv, r) ==
    IF TrimSpace(r.liveMarker) = liveNavigationMarkerValue /\ TrimSpace(srv.cachePolicies.LiveNavigation) # << >>
    THEN srv.cachePolicies.LiveNavigation
    ELSE srv.cachePolicies.Live

\* patchLive: one patch-elements event for the selector.
patchLive(srv, x, r, selectorID, component, outcome) ==
    LET w1 == SetContentType(setCachePolicy(x.w, liveCachePolicyFor(srv, r)), "text/event-stream")
    IN [x EXCEPT !.w = componentRender(w1,
            << [t |-> "event", selector |-> selectorID, elements |-> component] >>, outcome)]

NotFoundPageNil == "nil"
NotFoundPageNilComponent == "returns nil"
NotFoundPageComponent == "returns a component"

notFoundComponent(notFoundContext) == textComponent(notFoundContext.RequestPath)

\* handleNotFound that answers like a page: no status of its own and the
\* full-page policy.
handleNotFoundAsPage(srv, x0, notFoundContext, o) ==
    LET x == Emit(x0, [op |-> "handleNotFound", ctx |-> notFoundContext])
    IN IF srv.notFoundPage = NotFoundPageNil
       THEN [x EXCEPT !.w = httpNotFound(setCachePolicy(x.w, srv.cachePolicies.HTML))]
       ELSE renderPage(srv, Emit(x, [op |-> "notFoundPage", ctx |-> notFoundContext]),
                       notFoundComponent(notFoundContext), o.NotFoundRender)

handleNotFound(srv, x0, notFoundContext, o) ==
    LET x == Emit(x0, [op |-> "handleNotFound", ctx |-> notFoundContext])
        bare == [x EXCEPT !.w = httpNotFound(setCachePolicy(x.w, srv.cachePolicies.Error))]
        x1 == Emit(x, [op |-> "notFoundPage", ctx |-> notFoundContext])
        rendered == renderPageWithStatus(x1, notFoundComponent(notFoundContext), StatusNotFound,
                                         srv.cachePolicies.Error, o.NotFoundRender)
    IN IF srv.notFoundPage = NotFoundPageNil THEN bare
       ELSE IF srv.notFoundPage = NotFoundPageNilComponent
       THEN [x1 EXCEPT !.w = httpNotFound(setCachePolicy(x1.w, srv.cachePolicies.Error))]
       ELSE IF o.NotFoundRender.err # NoError
       THEN handleServerError(srv, rendered, [msg |-> "render not found page", pattern |-> << >>, cause |-> o.NotFoundRender.err])
       ELSE rendered

(***************************************************************************)
(* Dispatch engine (framework contracts and engine)                        *)
(***************************************************************************)

NotFoundSourcePageLoad == "page_load"
NotFoundSourceUnmatchedRoute == "unmatched_route"

\* The source tag of a live module's load failure.
liveLoadSource == NotFoundSourcePageLoad

\* A missing predicate that would take every error for a not-found error.
IsNotFoundNilMatches(engine, err) ==
    IF engine.isNotFoundError.nil THEN TRUE ELSE err \in engine.isNotFoundError.trueFor

\* engine.New: without a predicate no error is a not-found error.
IsNotFound(engine, err) == IF engine.isNotFoundError.nil THEN FALSE ELSE err \in engine.isNotFoundError.trueFor

RespondNotFound(engine, x, notFoundContext, o) ==
    handleNotFound(engine.srv, Emit(x, [op |-> "RespondNotFound", ctx |-> notFoundContext]), notFoundContext, o)

RespondBadRequest(engine, x, message) ==
    handleBadRequest(engine.srv, Emit(x, [op |-> "RespondBadRequest", message |-> message]), message)

RespondServerError(engine, x, err) ==
    handleServerError(engine.srv, Emit(x, [op |-> "RespondServerError", err |-> err]), err)

EngineRenderPage(engine, x, component, outcome) ==
    renderPage(engine.srv, Emit(x, [op |-> "RenderPage", component |-> component, err |-> outcome.err]),
               component, outcome)

EnginePatchLive(engine, x, r, selectorID, component, outcome) ==
    patchLive(engine.srv,
              Emit(x, [op |-> "PatchLive", selectorID |-> selectorID, component |-> component, err |-> outcome.err]),
              r, selectorID, component, outcome)

wrapError(msg, pattern, err) == [msg |-> msg, pattern |-> pattern, cause |-> err]

\* handleLoadError that leaves the matched pattern out of the context.
handleLoadErrorNoPattern(engine, x, r, o, err, pattern, source) ==
    IF IsNotFound(engine, err)
    THEN RespondNotFound(engine, x,
             [RequestPath |-> r.path, MatchedRoutePattern |-> << >>, Source |-> source], o)
    ELSE RespondServerError(engine, x, wrapError("load route", pattern, err))

handleLoadError(engine, x, r, o, err, pattern, source) ==
    IF IsNotFound(engine, err)
    THEN RespondNotFound(engine, x,
             [RequestPath |-> r.path, MatchedRoutePattern |-> pattern, Source |-> source], o)
    ELSE RespondServerError(engine, x, wrapError("load route", pattern, err))

\* A layout renderer wraps the child in its layout; a page renderer renders
\* the view.
layoutRender(layout, child) == wrapComponent(layout, child)

pageRender(module, view) == textComponent(<< module.Render, view >>)

RECURSIVE applyLayoutsFrom(_, _, _)
applyLayoutsFrom(layouts, idx, wrapped) ==
    IF idx < 1 THEN wrapped
    ELSE applyLayoutsFrom(layouts, idx - 1, layoutRender(layouts[idx], wrapped))

\* applyLayouts with the loop running from the first layout to the last.
applyLayoutsFirstToLast(layouts, child) ==
    applyLayoutsFrom([i \in 1..Len(layouts) |-> layouts[Len(layouts) + 1 - i]], Len(layouts), child)

applyLayouts(layouts, child) == applyLayoutsFrom(layouts, Len(layouts), child)

\* servePageModule from the result of module.ParseParams on.
servePageParsed(engine, x, r, o, h, module, parsed) ==
    LET x1 == Emit(x, [op |-> "ParseParams", handler |-> h, live |-> FALSE, ok |-> parsed.ok])
        x2 == Emit(x1, [op |-> "Load", handler |-> h, live |-> FALSE, params |-> parsed.params, err |-> o.Load])
        component == applyLayouts(module.Layouts, pageRender(module, "page view"))
        x3 == EngineRenderPage(engine, x2, component, o.Render)
    IN IF ~parsed.ok THEN [served |-> FALSE, x |-> x1]
       ELSE IF o.Load # NoError
       THEN [served |-> TRUE, x |-> handleLoadError(engine, x2, r, o, o.Load, module.Pattern, NotFoundSourcePageLoad)]
       ELSE IF o.Render.err # NoError
       THEN [served |-> TRUE,
             x |-> RespondServerError(engine, x3, wrapError("render route", module.Pattern, o.Render.err))]
       ELSE [served |-> TRUE, x |-> x3]

\* servePageModule that classifies a render error as it does a load error.
servePageModuleRenderAsLoad(engine, x, r, o, h, module) ==
    LET parsed == writeParseParamsFunc(module.ParseParams, r.path)
        x1 == Emit(x, [op |-> "ParseParams", handler |-> h, live |-> FALSE, ok |-> parsed.ok])
        x2 == Emit(x1, [op |-> "Load", handler |-> h, live |-> FALSE, params |-> parsed.params, err |-> o.Load])
        component == applyLayouts(module.Layouts, pageRender(module, "page view"))
        x3 == EngineRenderPage(engine, x2, component, o.Render)
    IN IF ~parsed.ok THEN [served |-> FALSE, x |-> x1]
       ELSE IF o.Load # NoError
       THEN [served |-> TRUE, x |-> handleLoadError(engine, x2, r, o, o.Load, module.Pattern, NotFoundSourcePageLoad)]
       ELSE IF o.Render.err # NoError
       THEN [served |-> TRUE,
             x |-> handleLoadError(engine, x3, r, o, o.Render.err, module.Pattern, NotFoundSourcePageLoad)]
       ELSE [served |-> TRUE, x |-> x3]

\* servePageModule(runtime, w, r, module); h is the handler's position in the
\* handler list, o the results of the callbacks the request meets (o.Render
\* that of the render or patch callback, whichever the request reaches).
servePageModule(engine, x, r, o, h, module) ==
    servePageParsed(engine, x, r, o, h, module, writeParseParamsFunc(module.ParseParams, r.path))

DefaultBadRequestMessage == << "invalid request payload" >>

\* badRequestMessage without the trimming and the default: the message as
\* configured.
badRequestMessageAsConfigured(module) == module.BadRequestMessage

\* The message serveLiveModule answers a state parse failure with.
badRequestMessage(module) ==
    IF TrimSpace(module.BadRequestMessage) = << >>
    THEN DefaultBadRequestMessage
    ELSE TrimSpace(module.BadRequestMessage)

\* serveLiveModule from the result of module.ParseParams on.
serveLiveParsed(engine, x, r, o, h, module, render, parsed) ==
    LET x1 == Emit(x, [op |-> "ParseParams", handler |-> h, live |-> TRUE, ok |-> parsed.ok])
        x2 == Emit(x1, [op |-> "ParseState", handler |-> h, err |-> o.ParseState])
        x3 == Emit(x2, [op |-> "Load", handler |-> h, live |-> TRUE, params |-> parsed.params, err |-> o.Load])
        x4 == EnginePatchLive(engine, x3, r, module.SelectorID, pageRender(render, "live view"), o.Render)
    IN IF ~parsed.ok THEN [served |-> FALSE, x |-> x1]
       ELSE IF o.ParseState # NoError
       THEN [served |-> TRUE, x |-> RespondBadRequest(engine, x2, badRequestMessage(module))]
       ELSE IF o.Load # NoError
       THEN [served |-> TRUE, x |-> handleLoadError(engine, x3, r, o, o.Load, module.Pattern, liveLoadSource)]
       ELSE IF o.Render.err # NoError
       THEN [served |-> TRUE,
             x |-> RespondServerError(engine, x4, wrapError("patch route", module.Pattern, o.Render.err))]
       ELSE [served |-> TRUE, x |-> x4]

\* serveLiveModule that wraps the patch in the page module's layouts.
serveLiveModuleWrapped(engine, x, r, o, h, module, render) ==
    LET parsed == writeParseParamsFunc(module.ParseParams, r.path)
        x1 == Emit(x, [op |-> "ParseParams", handler |-> h, live |-> TRUE, ok |-> parsed.ok])
        x2 == Emit(x1, [op |-> "ParseState", handler |-> h, err |-> o.ParseState])
        message == badRequestMessage(module)
        x3 == Emit(x2, [op |-> "Load", handler |-> h, live |-> TRUE, params |-> parsed.params, err |-> o.Load])
        x4 == EnginePatchLive(engine, x3, r, module.SelectorID,
                              applyLayouts(render.Layouts, pageRender(render, "live view")), o.Render)
    IN IF ~parsed.ok THEN [served |-> FALSE, x |-> x1]
       ELSE IF o.ParseState # NoError THEN [served |-> TRUE, x |-> RespondBadRequest(engine, x2, message)]
       ELSE IF o.Load # NoError
       THEN [served |-> TRUE, x |-> handleLoadError(engine, x3, r, o, o.Load, module.Pattern, liveLoadSource)]
       ELSE IF o.Render.err # NoError
       THEN [served |-> TRUE,
             x |-> RespondServerError(engine, x4, wrapError("patch route", module.Pattern, o.Render.err))]
       ELSE [served |-> TRUE, x |-> x4]

\* serveLiveModule(runtime, w, r, module); render is the page renderer the
\* live module shares with the page module.
serveLiveModule(engine, x, r, o, h, module, render) ==
    serveLiveParsed(engine, x, r, o, h, module, render, writeParseParamsFunc(module.ParseParams, r.path))

TryServePage(engine, x, r, o, h) ==
    servePageModule(engine, Emit(x, [op |-> "TryServePage", handler |-> h]), r, o, h, engine.handlers[h].Page)

TryServeLive(engine, x, r, o, h) ==
    LET x1 == Emit(x, [op |-> "TryServeLive", handler |-> h]) IN
    IF engine.handlers[h].kind = PageOnlyRouteHandler THEN [served |-> FALSE, x |-> x1]
    ELSE serveLiveModule(engine, x1, r, o, h, engine.handlers[h].Live, engine.handlers[h].Page)

\* One loop of ServeRoute over the handlers from position h on.
RECURSIVE serveLoop(_, _, _, _, _, _)
\* serveNext that goes on to the next handler after a failed load.
serveNextRetrying(engine, r, o, live, h, tried) ==
    IF tried.served /\ o.Load = NoError THEN tried ELSE serveLoop(engine, tried.x, r, o, live, h + 1)

\* The step of the loop after handler h was tried: return when it served, go
\* on with the next handler when it did not.
serveNext(engine, r, o, live, h, tried) ==
    IF tried.served THEN tried ELSE serveLoop(engine, tried.x, r, o, live, h + 1)

serveLoop(engine, x, r, o, live, h) ==
    IF h > Len(engine.handlers) THEN [served |-> FALSE, x |-> x]
    ELSE serveNext(engine, r, o, live, h,
                   IF live THEN TryServeLive(engine, x, r, o, h) ELSE TryServePage(engine, x, r, o, h))

\* The second loop of ServeRoute, entered when the first served nothing.
secondLoop(engine, r, o, live, first) ==
    IF first.served THEN first ELSE serveLoop(engine, first.x, r, o, live, 1)

\* ServeRoute with the two loops exchanged: the page loop first.
ServeRoutePageFirst(engine, x, r, o) ==
    secondLoop(engine, r, o, TRUE, serveLoop(engine, x, r, o, FALSE, 1))

ServeRoute(engine, x, r, o) ==
    secondLoop(engine, r, o, FALSE, serveLoop(engine, x, r, o, TRUE, 1))

\* handleRoute of the adapter: the health check, the engine, and the
\* not-found answer for a request no handler served.
handleHealth(srv, x) ==
    [x EXCEPT !.w = Write(SetContentType(setCachePolicy(x.w, srv.cachePolicies.Health), "text/plain; charset=utf-8"),
                          << [t |-> "text", v |-> srv.healthBody] >>)]

\* routeServed that tags an unmatched request as a page-load failure.
routeServedAsPageLoad(engine, r, o, served) ==
    IF served.served THEN Emit(served.x, [op |-> "ServeRoute", served |-> TRUE])
    ELSE handleNotFound(engine.srv, Emit(served.x, [op |-> "ServeRoute", served |-> FALSE]),
             [RequestPath |-> r.path, MatchedRoutePattern |-> << >>, Source |-> NotFoundSourcePageLoad], o)

\* routeServed that answers not-found whatever ServeRoute returned.
routeServedIgnoringAnswer(engine, r, o, served) ==
    handleNotFound(engine.srv, Emit(served.x, [op |-> "ServeRoute", served |-> served.served]),
        [RequestPath |-> r.path, MatchedRoutePattern |-> << >>, Source |-> NotFoundSourceUnmatchedRoute], o)

\* What handleRoute does with the answer of ServeRoute: a request no handler
\* served gets the not-found answer, tagged as an unmatched route.
routeServed(engine, r, o, served) ==
    IF served.served THEN Emit(served.x, [op |-> "ServeRoute", served |-> TRUE])
    ELSE handleNotFound(engine.srv, Emit(served.x, [op |-> "ServeRoute", served |-> FALSE]),
             [RequestPath |-> r.path, MatchedRoutePattern |-> << >>, Source |-> NotFoundSourceUnmatchedRoute], o)

\* handleRoute that asks the engine before it looks at the health path.
handleRouteEngineFirst(engine, x, r, o) ==
    LET served == ServeRoute(engine, x, r, o)
    IN IF served.served THEN Emit(served.x, [op |-> "ServeRoute", served |-> TRUE])
       ELSE IF r.path = engine.srv.healthPath THEN handleHealth(engine.srv, x)
       ELSE routeServed(engine, r, o, served)

handleRoute(engine, x, r, o) ==
    IF r.path = engine.srv.healthPath THEN handleHealth(engine.srv, x)
    ELSE routeServed(engine, r, o, ServeRoute(engine, x, r, o))

(***************************************************************************)
(* The modelled inputs                                                     *)
(***************************************************************************)

SegAuthor == << "a", "u", "t", "h", "o", "r" >>
SegSettings == << "s", "e", "t", "t", "i", "n", "g", "s" >>
SegNotes == << "n", "o", "t", "e", "s" >>
SegLive == << "l", "i", "v", "e" >>
SegNina == << "n", "i", "n", "a" >>
SegMissing == << "m", "i", "s", "s", "i", "n", "g" >>
SegHealthz == << "h", "e", "a", "l", "t", "h", "z" >>
SegStatic == << ".", "r", "e", "v", "o", "t", "a", "l", "e" >>
SegFile == << "f", "i", "l", "e" >>
DynSlug == << "[", "s", "l", "u", "g", "]" >>
DynId == << "[", "i", "d", "]" >>
SegDashed == << "a", "-", "b" >>
SegDoubleDashed == << "a", "-", "-", "b" >>
SegLegacy == << "_", "o", "l", "d" >>

\* The route directories a tree may hold a page.templ or a layout.templ in.
PageDirs == { << SegAuthor >>, << SegAuthor, DynSlug >>, << SegAuthor, SegSettings >>, << SegAuthor, DynId >> }

LayoutDirs == { << >>, << SegAuthor >> }

DeclaredTypes == {TypesMissing, TypesNoPageView, TypesPageView, TypesPageViewLiveState}

\* The largest number of page routes of a tree.
MaxPages == 2

\* The trees with at most MaxPages page routes among dirs: every page
\* directory with one of the resolver types files, every subset of the
\* layout directories.
TreesOf(dirs) ==
    UNION { { [pages |-> pages, layouts |-> layouts, types |-> types] :
                layouts \in SUBSET LayoutDirs, types \in [pages -> DeclaredTypes] } :
            pages \in {ps \in SUBSET dirs : Cardinality(ps) <= MaxPages} }

Trees == TreesOf(PageDirs)

\* The trees of the generator runs: a dynamic route, two static
\* directories whose route names coincide while their resolver aliases
\* differ, and a directory in the legacy wildcard form.
GenPageDirs ==
    { << SegAuthor, DynSlug >>, << SegDashed >>, << SegDoubleDashed >>, << SegLegacy >> }

GenTrees == TreesOf(GenPageDirs)

\* The request path /a/b of the path elements << a, b >>.
pathOf(elements) == << "/" >> \o Join(elements, << "/" >>)

RequestPaths ==
    { pathOf(<< SegAuthor, SegSettings >>),
      pathOf(<< SegAuthor, SegNina >>),
      pathOf(<< SegAuthor, SegLive >>),
      pathOf(<< SegAuthor >>) \o << "/" >>,
      pathOf(<< SegNotes >>),
      pathOf(<< SegNotes, SegLive >>),
      pathOf(<< SegMissing >>),
      pathOf(<< SegHealthz >>),
      pathOf(<< SegStatic, SegFile >>) }

\* A request: its URL path and the value of its __live query parameter.
Requests ==
    { [path |-> path, liveMarker |-> << >>] : path \in RequestPaths }
        \cup { [path |-> pathOf(<< SegNotes, SegLive >>), liveMarker |-> liveNavigationMarkerValue] }

\* What the callbacks a request meets return.  Dispatch stops at the first
\* failing callback, so at most one of the state parser, the loader and the
\* render or patch callback fails; the not-found page is rendered only when
\* nothing before it failed or the loader did.
Errors == {"errNotFound", "errBoom"}

RenderOk == [err |-> NoError, partial |-> FALSE]

RenderFailures == { [err |-> e, partial |-> p] : e \in Errors, p \in BOOLEAN }

Outcomes ==
    { [ParseState |-> NoError, Load |-> load, Render |-> RenderOk, NotFoundRender |-> nf] :
         load \in {NoError} \cup Errors, nf \in {RenderOk} \cup {f \in RenderFailures : f.err = "errBoom"} }
      \cup { [ParseState |-> "errInvalid", Load |-> NoError, Render |-> RenderOk, NotFoundRender |-> RenderOk] }
      \cup { [ParseState |-> NoError, Load |-> NoError, Render |-> f, NotFoundRender |-> RenderOk] :
                f \in RenderFailures }

\* Hand-written handler lists, as a program without generated routes passes
\* them: a /notes route with a live module, and a page-only route whose
\* pattern /notes/[id] also covers /notes/live.
LayoutName(i) == << "l", "a", "y", "o", "u", "t", AsciiOrder[Ord("0") + i] >>

\* The longest layout list of a hand-written page module.
MaxLayouts == 2

LayoutList(n) == [i \in 1..n |-> LayoutName(i)]

BadRequestMessages == { << "bad payload" >>, << >>, << " ", "bad payload", " " >> }

SelectorNotes == << "n", "o", "t", "e", "s", "-", "c", "o", "n", "t", "e", "n", "t" >>

notesHandler(message, layouts) ==
    [kind |-> PageAndLiveRouteHandler,
     Page |-> [Pattern |-> pathOf(<< SegNotes >>),
               ParseParams |-> [pattern |-> pathOf(<< SegNotes >>), params |-> << >>],
               Render |-> SegNotes,
               Layouts |-> layouts],
     Live |-> [Pattern |-> pathOf(<< SegNotes, SegLive >>),
               ParseParams |-> [pattern |-> pathOf(<< SegNotes, SegLive >>), params |-> << >>],
               SelectorID |-> SelectorNotes,
               BadRequestMessage |-> message]]

noteByIdHandler ==
    [kind |-> PageOnlyRouteHandler,
     Page |-> [Pattern |-> pathOf(<< SegNotes, DynId >>),
               ParseParams |-> [pattern |-> pathOf(<< SegNotes, DynId >>),
                                params |-> << [Name |-> << "i", "d" >>, FieldName |-> << "I", "d" >>] >>],
               Render |-> << "n", "o", "t", "e" >>,
               Layouts |-> << >>],
     Live |-> NoLiveModule]

TestHandlers ==
    { notesHandler(message, LayoutList(MaxLayouts)) : message \in BadRequestMessages }
        \cup { notesHandler(<< "bad payload" >>, LayoutList(n)) : n \in 0..MaxLayouts }
        \cup { noteByIdHandler }

\* The longest hand-written handler list.
MaxHandlers == 2

HandlerLists == UNION { [1..n -> TestHandlers] : n \in 1..MaxHandlers }

\* The adapter configurations: the not-found predicate and the not-found
\* page vary, the cache policies are those of the adapter's tests.
NotFoundPredicates ==
    { [nil |-> TRUE, trueFor |-> {}],
      [nil |-> FALSE, trueFor |-> {"errNotFound"}],
      [nil |-> FALSE, trueFor |-> Errors] }

TestCachePolicies ==
    [HTML |-> << "html-cache" >>, Live |-> << "live-cache" >>, LiveNavigation |-> << "live-nav-cache" >>,
     Static |-> << "static-cache" >>, Health |-> << "health-cache" >>, Error |-> << "error-cache" >>]

defaultHealthPath == pathOf(<< SegHealthz >>)
defaultHealthBody == << "ok" >>
defaultStaticPrefix == pathOf(<< SegStatic >>) \o << "/" >>

defaultCacheControlPolicy == << "public, max-age=3600, s-maxage=3600" >>

\* DefaultCachePolicies: the live-navigation class is left blank.
DefaultCachePolicies ==
    [HTML |-> defaultCacheControlPolicy, Live |-> defaultCacheControlPolicy, LiveNavigation |-> << >>,
     Static |-> defaultCacheControlPolicy, Health |-> defaultCacheControlPolicy,
     Error |-> defaultCacheControlPolicy]

withDefaultPoliciesForEveryClass(policies) ==
    [class \in DOMAIN policies |->
        IF TrimSpace(policies[class]) = << >> THEN defaultCacheControlPolicy ELSE policies[class]]

\* withDefaultPolicies: a blank class gets its default, but for the
\* live-navigation class, which stays as configured.
withDefaultPolicies(policies) ==
    [HTML |-> IF TrimSpace(policies.HTML) = << >> THEN DefaultCachePolicies.HTML ELSE policies.HTML,
     Live |-> IF TrimSpace(policies.Live) = << >> THEN DefaultCachePolicies.Live ELSE policies.Live,
     LiveNavigation |-> policies.LiveNavigation,
     Static |-> IF TrimSpace(policies.Static) = << >> THEN DefaultCachePolicies.Static ELSE policies.Static,
     Health |-> IF TrimSpace(policies.Health) = << >> THEN DefaultCachePolicies.Health ELSE policies.Health,
     Error |-> IF TrimSpace(policies.Error) = << >> THEN DefaultCachePolicies.Error ELSE policies.Error]

normalizeHealthPath(path) ==
    IF TrimSpace(path) = << >> THEN defaultHealthPath
    ELSE IF ~HasPrefix(TrimSpace(path), << "/" >>) THEN << "/" >> \o TrimSpace(path)
    ELSE TrimSpace(path)

\* The configurations of the dispatch runs: the not-found predicate and the
\* not-found page vary; the cache policies are those of the adapter's tests,
\* the health check is the default one and a logging callback is injected.
Configs ==
    { [IsNotFoundError |-> predicate, NotFoundPage |-> page, CachePolicies |-> TestCachePolicies,
       HealthPath |-> << >>, HealthBody |-> << >>, LogServerError |-> TRUE] :
        predicate \in NotFoundPredicates,
        page \in {NotFoundPageNil, NotFoundPageNilComponent, NotFoundPageComponent} }

\* httpserver.New with engine.New: the server and its route engine.  cfg is
\* the configuration New was called with.
New(cfg, handlers) ==
    [up |-> TRUE,
     cfg |-> cfg,
     handlers |-> handlers,
     isNotFoundError |-> cfg.IsNotFoundError,
     srv |-> [cachePolicies |-> withDefaultPolicies(cfg.CachePolicies),
              notFoundPage |-> cfg.NotFoundPage,
              logServerErr |-> cfg.LogServerError,
              healthPath |-> normalizeHealthPath(cfg.HealthPath),
              healthBody |-> IF TrimSpace(cfg.HealthBody) = << >> THEN defaultHealthBody
                             ELSE TrimSpace(cfg.HealthBody),
              staticPrefix |-> defaultStaticPrefix]]

NoConfig ==
    [IsNotFoundError |-> [nil |-> TRUE, trueFor |-> {}], NotFoundPage |-> NotFoundPageNil,
     CachePolicies |-> TestCachePolicies, HealthPath |-> << >>, HealthBody |-> << >>, LogServerError |-> TRUE]

NoServer ==
    [up |-> FALSE,
     cfg |-> NoConfig,
     handlers |-> << >>,
     isNotFoundError |-> [nil |-> TRUE, trueFor |-> {}],
     srv |-> [cachePolicies |-> TestCachePolicies,
              notFoundPage |-> NotFoundPageNil,
              logServerErr |-> TRUE,
              healthPath |-> defaultHealthPath,
              healthBody |-> defaultHealthBody,
              staticPrefix |-> defaultStaticPrefix]]

(***************************************************************************)
(* The state machine                                                       *)
(***************************************************************************)

VARIABLES
    tree,       \* the source tree generation reads
    fs,         \* the files on disk: the generated output root and the resolver.go files
    runResult,  \* the error of the last generation run, "not run" before the first
    engine,     \* the server and its route engine, once constructed
    req,        \* the last request
    x,          \* the last exchange: the response writer and the calls made
    built,      \* the route files and the route metadata built from the tree, once built
    emitted,    \* the sources the emitter returned, one entry per call
    router,     \* the route table of the app router, once constructed
    matched,    \* the last call of a matcher: its arguments and what it returned
    flights     \* the calls of ServeRoute in progress at the same time, one entry per request

vars == << tree, fs, runResult, engine, req, x, built, emitted, router, matched, flights >>

NotRun == "not run"

NoRouter == [routes |-> << >>, err |-> "not constructed"]

NoCall ==
    [op |-> "none", pattern |-> << >>, path |-> << >>, ok |-> FALSE, ID |-> << >>, params |-> {}, err |-> NoError]

NotBuilt ==
    [routes |-> [err |-> NoError, Pages |-> << >>, Layouts |-> {}], metas |-> << >>, err |-> "not built",
     args |-> << >>]

NoRequest == [path |-> << >>, liveMarker |-> << >>]

\* The output of an earlier generation run, still on disk.
StaleOutput == { genFile("registry_gen.go", << >>), genFile("stale_gen.go", << >>) }

Init ==
    /\ tree \in Trees
    /\ fs \in { [gen |-> gen, resolvers |-> {}] : gen \in {{}, StaleOutput} }
    /\ runResult = NotRun
    /\ engine = NoServer
    /\ req = NoRequest
    /\ x = [w |-> NewResponse, log |-> << >>]
    /\ built = NotBuilt
    /\ emitted = << >>
    /\ router = NoRouter
    /\ matched = NoCall
    /\ flights = << >>

\* go generate: one run of the route generator.
Generate ==
    /\ ~engine.up
    /\ \E ran \in {Run(tree, fs)} :
          /\ runResult' = ran.err
          /\ fs' = ran.fs
    /\ UNCHANGED << tree, engine, req, x, built, emitted, router, matched, flights >>

\* The registry compiled into the binary: the handler list of registry_gen.go.
generatedHandlers == (CHOOSE f \in fs.gen : f.file = "registry_gen.go").content

\* Server start of a program with generated routes.
StartGenerated ==
    /\ ~engine.up
    /\ runResult = NoError
    /\ \E cfg \in Configs : engine' = New(cfg, generatedHandlers)
    /\ UNCHANGED << tree, fs, runResult, req, x, built, emitted, router, matched, flights >>

\* Server start of a program that passes a hand-written handler list.
StartHandWritten ==
    /\ ~engine.up
    /\ tree.pages = {} /\ tree.layouts = {}
    /\ runResult = NotRun
    /\ fs.gen = {}
    /\ \E cfg \in Configs, handlers \in HandlerLists : engine' = New(cfg, handlers)
    /\ UNCHANGED << tree, fs, runResult, req, x, built, emitted, router, matched, flights >>

\* The ServeMux of the adapter hands a request under the static prefix to
\* the file server, with the static cache policy.
ServeStatic ==
    /\ engine.up
    /\ req = NoRequest
    /\ \E r \in Requests :
          /\ HasPrefix(r.path, engine.srv.staticPrefix)
          /\ req' = r
          /\ x' = [w |-> Write(setCachePolicy(NewResponse, engine.srv.cachePolicies.Static),
                               << [t |-> "file", v |-> r.path] >>),
                   log |-> << >>]
    /\ UNCHANGED << tree, fs, runResult, engine, built, emitted, router, matched, flights >>

\* Every other request goes to handleRoute.
HandleRoute ==
    /\ engine.up
    /\ req = NoRequest
    /\ \E r \in Requests, o \in Outcomes :
          /\ ~HasPrefix(r.path, engine.srv.staticPrefix)
          /\ req' = r
          /\ x' = handleRoute(engine, [w |-> NewResponse, log |-> << >>], r, o)
    /\ UNCHANGED << tree, fs, runResult, engine, built, emitted, router, matched, flights >>

\* The response is written and the exchange is over: the request-scoped
\* values are dropped, the server waits for the next request.
Finish ==
    /\ req # NoRequest
    /\ req' = NoRequest
    /\ x' = [w |-> NewResponse, log |-> << >>]
    /\ UNCHANGED << tree, fs, runResult, engine, built, emitted, router, matched, flights >>

Next == Generate \/ StartGenerated \/ StartHandWritten \/ ServeStatic \/ HandleRoute \/ Finish

Spec == Init /\ [][Next]_vars

(***************************************************************************)
(* The generator alone: runs of go generate over the wider set of trees    *)
(***************************************************************************)

\* A resolver.go its author wrote, in the resolver directory of a route.
handWrittenResolver(dir) ==
    [dir |-> resolverRelativePath(parseRouteSegments(Join(dir, << "/" >>)).segments),
     content |-> [origin |-> HandWritten, params |-> << >>, methods |-> << >>]]

\* The resolver root before a run: hand-written resolvers for some of the
\* routes of the tree.
ResolverRoots(pages) ==
    { {handWrittenResolver(dir) : dir \in written} :
        written \in SUBSET {dir \in pages : parseRouteSegments(Join(dir, << "/" >>)).err = NoError} }

GenInit ==
    /\ tree \in GenTrees
    /\ fs \in { [gen |-> gen, resolvers |-> resolvers] :
                  gen \in {{}, StaleOutput}, resolvers \in ResolverRoots(tree.pages) }
    /\ runResult = NotRun
    /\ engine = NoServer
    /\ req = NoRequest
    /\ x = [w |-> NewResponse, log |-> << >>]
    /\ built = NotBuilt
    /\ emitted = << >>
    /\ router = NoRouter
    /\ matched = NoCall
    /\ flights = << >>

\* The most calls of the emitter on one tree.
MaxEmits == 2

\* discoverRouteFiles and buildRouteMetas on the tree, as the generator's
\* tests call them.
BuildMetas ==
    /\ built = NotBuilt
    /\ \E routes \in {discoverRouteFiles(tree)} :
          /\ routes.err = NoError
          /\ \E result \in {buildRouteMetas(routes.Pages, tree)} :
                built' = [routes |-> routes, metas |-> result.metas, err |-> result.err, args |-> result.args]
    /\ UNCHANGED << tree, fs, runResult, engine, req, x, emitted, router, matched, flights >>

\* One call of generateContractsSource and generateRegistrySource on the
\* route metadata and the layouts built from the tree.
EmitSources ==
    /\ built.err = NoError
    /\ Len(emitted) < MaxEmits
    /\ \E collected \in {collectLayoutWrappers(built.metas, built.routes.Layouts)} :
          \E layoutOrder \in mapOrders({l.RouteID : l \in built.routes.Layouts}),
             wrapperOrder \in mapOrders({d.Name : d \in collected.wrappers}) :
              emitted' = Append(emitted,
                  [contracts |-> contractsSourceText(built.metas),
                   registry |-> registrySourceText(built.metas, built.routes.Layouts, collected,
                                                   layoutOrder, wrapperOrder)])
    /\ UNCHANGED << tree, fs, runResult, engine, req, x, built, router, matched, flights >>

GenNext == Generate \/ BuildMetas \/ EmitSources

GenSpec == GenInit /\ [][GenNext]_vars

(***************************************************************************)
(* The matchers alone: the app router's table and the pattern matcher      *)
(***************************************************************************)

SegAuthorUpper == << "A", "u", "t", "h", "o", "r" >>
DynSection == << "[", "s", "e", "c", "t", "i", "o", "n", "]" >>
LegacySlug == << "_", "s", "l", "u", "g" >>

\* The page directories of the route tables: the root, static and dynamic
\* routes that share prefixes, and a route whose first segment is dynamic.
RouterPageDirs == PageDirs \cup { << >>, << DynSection, SegSettings >> }

\* The largest number of routes of a route table.
MaxRoutes == 3

RouterTrees ==
    { [pages |-> pages, layouts |-> {}, types |-> [dir \in pages |-> TypesPageView]] :
        pages \in {ps \in SUBSET RouterPageDirs : Cardinality(ps) <= MaxRoutes} }

\* The request paths handed to the matchers: also the root, a path in
\* another case, and a path with one segment more than any route.
\* Values for a slug position: led by a dash, led by an underscore, with a
\* character outside the slug alphabet, and one using all of the alphabet.
SlugValues == { << "-", "n" >>, << "_", "n" >>, << "n", ".", "a" >>, << "N", "_", "1", "-" >> }

\* The paths handed to the matchers: the request paths, the root, a path in
\* upper case, live paths, the slug values and two paths that end in a space.
MatchPaths ==
    RequestPaths \cup { << "/" >>,
                        pathOf(<< SegAuthorUpper, SegSettings >>),
                        pathOf(<< SegAuthor, SegNina, SegLive >>) }
                 \cup { pathOf(<< SegAuthor, value >>) : value \in SlugValues }
                 \cup { pathOf(<< SegAuthor, << "_", "n" >>, SegLive >>) }
                 \cup { pathOf(<< SegAuthor >>) \o << " " >>, pathOf(<< SegAuthor, SegNina >>) \o << " " >> }

\* The patterns handed to matchPathPattern: the patterns of the routes, a
\* pattern with two dynamic segments, and one in the legacy wildcard form.
MatchPatterns ==
    { routePattern(Join(dir, << "/" >>)) : dir \in RouterPageDirs }
        \cup { pathOf(<< DynSection, DynSlug >>), pathOf(<< SegAuthor, LegacySlug >>) }

RouterInit ==
    /\ tree \in RouterTrees
    /\ fs = [gen |-> {}, resolvers |-> {}]
    /\ runResult = NotRun
    /\ engine = NoServer
    /\ req = NoRequest
    /\ x = [w |-> NewResponse, log |-> << >>]
    /\ built = NotBuilt
    /\ emitted = << >>
    /\ router = NoRouter
    /\ matched = NoCall
    /\ flights = << >>

\* NewAppRouter over the page templates of the tree.
NewRouter ==
    /\ router = NoRouter
    /\ router' = NewAppRouter(tree)
    /\ UNCHANGED << tree, fs, runResult, engine, req, x, built, emitted, matched, flights >>

\* A call of AppRouter.Match.  The matchers keep no state, so one call per
\* behaviour shows all there is.
MatchRoute ==
    /\ router.err = NoError
    /\ matched = NoCall
    /\ \E path \in MatchPaths :
          \E result \in {Match(router, path)} :
              matched' = [op |-> "Match", pattern |-> << >>, path |-> path,
                          ok |-> result.ok, ID |-> result.ID, params |-> result.Params,
                          err |-> NoError]
    /\ UNCHANGED << tree, fs, runResult, engine, req, x, built, emitted, router, flights >>

\* A call of matchPathPattern.
MatchPattern ==
    /\ matched = NoCall
    /\ \E pattern \in MatchPatterns, path \in MatchPaths :
          \E result \in {matchPathPattern(pattern, path)} :
              matched' = [op |-> "matchPathPattern", pattern |-> pattern, path |-> path,
                          ok |-> result.ok, ID |-> << >>, params |-> result.params,
                          err |-> NoError]
    /\ UNCHANGED << tree, fs, runResult, engine, req, x, built, emitted, router, flights >>

\* The parse<Route>Params function the generator writes for the page module
\* (live: for the live module) of the route of a page directory.
generatedParser(dir, live) ==
    [pattern |-> routePattern(Join(dir, << "/" >>)) \o (IF live THEN LiveSuffix ELSE << >>),
     params |-> routeParamsFromSegments(parseRouteSegments(Join(dir, << "/" >>)).segments).params]

\* A call of a generated parameter parser.
ParseParams ==
    /\ matched = NoCall
    /\ \E dir \in RouterPageDirs \ {<< >>}, live \in BOOLEAN, path \in MatchPaths :
          \E parser \in {generatedParser(dir, live)} :
              \E result \in {writeParseParamsFunc(parser, path)} :
                  matched' = [op |-> "ParseParams", pattern |-> parser.pattern, path |-> path,
                              ok |-> result.ok, ID |-> << >>, params |-> result.params,
                          err |-> NoError]
    /\ UNCHANGED << tree, fs, runResult, engine, req, x, built, emitted, router, flights >>

RouterNext == NewRouter \/ MatchRoute \/ MatchPattern \/ ParseParams

RouterSpec == RouterInit /\ [][RouterNext]_vars

(***************************************************************************)
(* The adapter alone: one server per configuration of the health check,    *)
(* the cache policies and the logging callback                             *)
(***************************************************************************)

CachePolicyClasses == {"HTML", "Live", "LiveNavigation", "Static", "Health", "Error"}

\* The policy a caller sets for a class.
override(class) == << " ", "no-store", class, " " >>

\* The cache policies a caller configures: nothing, everything, everything
\* but one class, and one class only.
ConfiguredPolicies ==
    { [class \in CachePolicyClasses |-> IF class \in set THEN override(class) ELSE << >>] :
        set \in { {}, CachePolicyClasses }
                   \cup { {class} : class \in CachePolicyClasses }
                   \cup { CachePolicyClasses \ {class} : class \in CachePolicyClasses } }

\* A health check at the path of the notes route, next to the default one.
HealthChecks ==
    { [HealthPath |-> << >>, HealthBody |-> << >>],
      [HealthPath |-> SegNotes \o << " " >>, HealthBody |-> << " ", "alive", " " >>] }

AdapterConfigs ==
    { [IsNotFoundError |-> [nil |-> FALSE, trueFor |-> {"errNotFound"}],
       NotFoundPage |-> page, CachePolicies |-> policies,
       HealthPath |-> health.HealthPath, HealthBody |-> health.HealthBody, LogServerError |-> logger] :
        page \in {NotFoundPageNil, NotFoundPageNilComponent, NotFoundPageComponent},
        policies \in ConfiguredPolicies,
        health \in HealthChecks,
        logger \in BOOLEAN }

AdapterHandlers == << notesHandler(<< "bad payload" >>, LayoutList(1)), noteByIdHandler >>

AdapterInit ==
    /\ tree = [pages |-> {}, layouts |-> {}, types |-> << >>]
    /\ fs = [gen |-> {}, resolvers |-> {}]
    /\ runResult = NotRun
    /\ engine \in {New(cfg, AdapterHandlers) : cfg \in AdapterConfigs}
    /\ req = NoRequest
    /\ x = [w |-> NewResponse, log |-> << >>]
    /\ built = NotBuilt
    /\ emitted = << >>
    /\ router = NoRouter
    /\ matched = NoCall
    /\ flights = << >>

AdapterNext == ServeStatic \/ HandleRoute \/ Finish

AdapterSpec == AdapterInit /\ [][AdapterNext]_vars

(***************************************************************************)
(* Concurrent dispatch: several goroutines inside ServeRoute of one engine *)
(***************************************************************************)

\* The most requests in flight at once.
MaxFlights == 2

ConcConfig ==
    [IsNotFoundError |-> [nil |-> FALSE, trueFor |-> {"errNotFound"}], NotFoundPage |-> NotFoundPageComponent,
     CachePolicies |-> TestCachePolicies, HealthPath |-> << >>, HealthBody |-> << >>, LogServerError |-> TRUE]

ConcHandlerLists ==
    { AdapterHandlers, << noteByIdHandler, notesHandler(<< "bad payload" >>, LayoutList(1)) >> }

ConcRequests ==
    { [path |-> path, liveMarker |-> << >>] :
        path \in { pathOf(<< SegNotes >>), pathOf(<< SegNotes, SegLive >>), pathOf(<< SegMissing >>) } }

ConcOutcomes ==
    { [ParseState |-> NoError, Load |-> load, Render |-> RenderOk, NotFoundRender |-> RenderOk] :
        load \in {NoError, "errNotFound", "errBoom"} }

\* One iteration of a range loop of ServeRoute for one request: the handler
\* at position flight.h is tried.  The loop reads engine.handlers and calls
\* the handler with the engine; it assigns to no field of the engine.  After
\* the last handler of the live loop the page loop starts, after the last
\* handler of the page loop ServeRoute returns false.
rangeStepConsuming(eng, flight) ==
    LET tried == IF flight.live THEN TryServeLive(eng, flight.x, flight.r, flight.o, 1)
                 ELSE TryServePage(eng, flight.x, flight.r, flight.o, 1)
    IN IF eng.handlers = << >>
       THEN [engine |-> eng, flight |-> [flight EXCEPT !.done = TRUE, !.served = FALSE]]
       ELSE [engine |-> [eng EXCEPT !.handlers = Tail(@)],
             flight |-> [flight EXCEPT !.x = tried.x, !.done = tried.served, !.served = tried.served]]

rangeStep(eng, flight) ==
    IF flight.h > Len(eng.handlers)
    THEN [engine |-> eng,
          flight |-> IF flight.live THEN [flight EXCEPT !.live = FALSE, !.h = 1]
                     ELSE [flight EXCEPT !.done = TRUE, !.served = FALSE]]
    ELSE LET tried == IF flight.live THEN TryServeLive(eng, flight.x, flight.r, flight.o, flight.h)
                      ELSE TryServePage(eng, flight.x, flight.r, flight.o, flight.h)
         IN [engine |-> eng,
             flight |-> [flight EXCEPT !.x = tried.x, !.h = @ + 1,
                                       !.done = tried.served, !.served = tried.served]]

ConcInit ==
    /\ tree = [pages |-> {}, layouts |-> {}, types |-> << >>]
    /\ fs = [gen |-> {}, resolvers |-> {}]
    /\ runResult = NotRun
    /\ engine \in {New(ConcConfig, handlers) : handlers \in ConcHandlerLists}
    /\ req = NoRequest
    /\ x = [w |-> NewResponse, log |-> << >>]
    /\ built = NotBuilt
    /\ emitted = << >>
    /\ router = NoRouter
    /\ matched = NoCall
    /\ flights = << >>

\* A request arrives and its goroutine enters ServeRoute.
Accept ==
    /\ Len(flights) < MaxFlights
    /\ \E r \in ConcRequests, o \in ConcOutcomes :
          flights' = Append(flights, [r |-> r, o |-> o, x |-> [w |-> NewResponse, log |-> << >>],
                                      live |-> TRUE, h |-> 1, done |-> FALSE, served |-> FALSE])
    /\ UNCHANGED << tree, fs, runResult, engine, req, x, built, emitted, router, matched >>

\* The goroutine of one request runs one iteration of its loop.
DispatchStep ==
    \E k \in DOMAIN flights :
        /\ ~flights[k].done
        /\ \E step \in {rangeStep(engine, flights[k])} :
              /\ engine' = step.engine
              /\ flights' = [flights EXCEPT ![k] = step.flight]
        /\ UNCHANGED << tree, fs, runResult, req, x, built, emitted, router, matched >>

ConcNext == Accept \/ DispatchStep

ConcSpec == ConcInit /\ [][ConcNext]_vars

(***************************************************************************)
(* The segment parser on the directory names of a tree                     *)
(***************************************************************************)

SegLegacyBare == << "_" >>
SegLegacyClosed == << "_", "o", "l", "d", "]" >>
SegLegacyOpen == << "_", "[", "x" >>

\* The page directories of the trees the segment parser is run on: the
\* legacy form alone, below a static directory, with brackets in it, and a
\* directory in the [param] form.
SegmentPageDirs ==
    { << SegLegacy >>, << SegLegacyBare >>, << SegLegacyClosed >>, << SegAuthor, SegLegacyOpen >>,
      << SegAuthor, DynSlug >> }

SegmentInit ==
    /\ tree \in TreesOf(SegmentPageDirs)
    /\ fs = [gen |-> {}, resolvers |-> {}]
    /\ runResult = NotRun
    /\ engine = NoServer
    /\ req = NoRequest
    /\ x = [w |-> NewResponse, log |-> << >>]
    /\ built = NotBuilt
    /\ emitted = << >>
    /\ router = NoRouter
    /\ matched = NoCall
    /\ flights = << >>

\* A call of parseRouteSegment on one directory name of the tree, as the
\* walk of discoverRouteFiles makes it through parseRouteSegments.
ParseRouteSegment ==
    /\ matched = NoCall
    /\ \E dir \in tree.pages \cup tree.layouts :
          \E i \in 1..Len(dir) :
              \E parsed \in {parseRouteSegment(dir[i])} :
                  matched' = [op |-> "parseRouteSegment", pattern |-> RoutePart(parsed.segment),
                              path |-> dir[i], ok |-> parsed.err = NoError, ID |-> << >>, params |-> {},
                              err |-> parsed.err]
    /\ UNCHANGED << tree, fs, runResult, engine, req, x, built, emitted, router, flights >>

SegmentNext == ParseRouteSegment \/ Generate

SegmentSpec == SegmentInit /\ [][SegmentNext]_vars

(***************************************************************************)
(* Generator runs over trees with layouts around the routes                *)
(***************************************************************************)

SegAuth == << "a", "u", "t", "h" >>

\* The directories of the layouts: the root, a directory with routes below
\* it, two directories next to one another below it, and a directory whose
\* name is the beginning of another's.
LayoutChainDirs ==
    { << >>, << SegAuthor >>, << SegAuthor, DynSlug >>, << SegAuthor, SegSettings >>, << SegAuth >> }

LayoutPageDirs == { << >>, << SegAuthor >>, << SegAuthor, DynSlug >>, << SegAuthor, SegSettings >> }

LayoutTrees ==
    { [pages |-> pages, layouts |-> layouts, types |-> [dir \in pages |-> TypesPageView]] :
        pages \in {ps \in SUBSET LayoutPageDirs : Cardinality(ps) <= MaxPages},
        layouts \in SUBSET LayoutChainDirs }

LayoutInit ==
    /\ tree \in LayoutTrees
    /\ fs = [gen |-> {}, resolvers |-> {}]
    /\ runResult = NotRun
    /\ engine = NoServer
    /\ req = NoRequest
    /\ x = [w |-> NewResponse, log |-> << >>]
    /\ built = NotBuilt
    /\ emitted = << >>
    /\ router = NoRouter
    /\ matched = NoCall
    /\ flights = << >>

LayoutNext == Generate \/ BuildMetas

LayoutSpec == LayoutInit /\ [][LayoutNext]_vars

(***************************************************************************)
(* Properties                                                              *)
(***************************************************************************)

\* The positions in the exchange's record of the calls of one kind.
Calls(op) == {i \in DOMAIN x.log : x.log[i].op = op}

\* The module whose loader the call at position i ran.
loadedModule(i) ==
    IF x.log[i].live THEN engine.handlers[x.log[i].handler].Live ELSE engine.handlers[x.log[i].handler].Page

\* A handler's live (page) module matches the request path when its
\* ParseParams accepts it.
livePatternMatches(h) ==
    /\ engine.handlers[h].kind = PageAndLiveRouteHandler
    /\ writeParseParamsFunc(engine.handlers[h].Live.ParseParams, req.path).ok

pagePatternMatches(h) == writeParseParamsFunc(engine.handlers[h].Page.ParseParams, req.path).ok

\* A request that went to the dispatch engine.
Dispatched == Calls("ServeRoute") # {}

\* C1: live-first ordering.  Every live try precedes every page try; the
\* live tries run over the handlers in registration order, one each, from the
\* first handler on, and all of them before a page is tried; when some
\* handler's live module matches the path no page module is tried, also when
\* the page module of an earlier handler matches the path.
C1_LiveFirst ==
    /\ \A i \in Calls("TryServePage"), j \in Calls("TryServeLive") : j < i
    /\ \A j \in Calls("TryServeLive") :
          x.log[j].handler = Cardinality({k \in Calls("TryServeLive") : k <= j})
    /\ Dispatched /\ engine.handlers # << >> => Calls("TryServeLive") # {}
    /\ Calls("TryServePage") # {} => Cardinality(Calls("TryServeLive")) = Len(engine.handlers)
    /\ Dispatched /\ (\E h \in DOMAIN engine.handlers : livePatternMatches(h)) => Calls("TryServePage") = {}

\* A live module served the request although the page module of a handler
\* registered before it matches the same path.
C1_Witness ==
    \E h1, h2 \in DOMAIN engine.handlers :
        /\ h1 < h2
        /\ pagePatternMatches(h1)
        /\ livePatternMatches(h2)
        /\ Calls("PatchLive") # {}
        /\ Calls("TryServePage") = {}

staticRoute(h) == engine.handlers[h].Page.ParseParams.params = << >>

\* C2: static route precedence.  With the generated handler list, when the
\* page pattern of a static route and that of a dynamic route both match the
\* path, the page that is loaded is the static route's.
C2_StaticRouteServed ==
    runResult = NoError =>
        \A s, d \in DOMAIN engine.handlers, i \in Calls("Load") :
            (/\ ~x.log[i].live
             /\ staticRoute(s) /\ ~staticRoute(d)
             /\ pagePatternMatches(s) /\ pagePatternMatches(d))
            => x.log[i].handler = s

\* The state parser of the handler at position i of the record failed.
ParseStateFailed(i) == x.log[i].op = "ParseState" /\ x.log[i].err # NoError

\* What C3 says apart from the message: one bad-request answer, after the
\* parse failure; no loader; no further handler; the request is served.
parseFailureShortCircuits(i) ==
    /\ Cardinality(Calls("RespondBadRequest")) = 1
    /\ \A b \in Calls("RespondBadRequest") : b > i
    /\ Calls("Load") = {}
    /\ \A t \in Calls("TryServeLive") \cup Calls("TryServePage") : t < i
    /\ Dispatched /\ \A s \in Calls("ServeRoute") : x.log[s].served
    /\ x.w.status = StatusBadRequest

\* C3 as amended: a state parse failure of a matching live handler is answered
\* once, as a bad request, with the handler's configured message trimmed of
\* surrounding blanks, or with "invalid request payload" when the configured
\* message is blank; no loader runs, no further handler is tried, and the
\* request is served.
C3_ParseStateFailure ==
    \A i \in DOMAIN x.log : ParseStateFailed(i) =>
        /\ parseFailureShortCircuits(i)
        /\ LET configured == engine.handlers[x.log[i].handler].Live.BadRequestMessage
               message == IF TrimSpace(configured) = << >>
                          THEN << "invalid request payload" >>
                          ELSE TrimSpace(configured)
           IN /\ \A b \in Calls("RespondBadRequest") : x.log[b].message = message
              /\ x.w.body = << [t |-> "text", v |-> message] >>

\* A parse failure of a handler whose configured message is blank or padded.
C3_Witness ==
    \E i \in DOMAIN x.log :
        /\ ParseStateFailed(i)
        /\ LET configured == engine.handlers[x.log[i].handler].Live.BadRequestMessage
           IN TrimSpace(configured) # configured \/ configured = << >>
        /\ x.w.status = StatusBadRequest

\* C3 as stated: the bad-request responder receives exactly the handler's
\* configured message.
C3_ExactConfiguredMessage ==
    \A i \in DOMAIN x.log : ParseStateFailed(i) =>
        /\ parseFailureShortCircuits(i)
        /\ \A b \in Calls("RespondBadRequest") :
              x.log[b].message = engine.handlers[x.log[i].handler].Live.BadRequestMessage

\* The loader call at position i failed with an error the injected predicate
\* takes for a not-found error.
LoadNotFound(i) ==
    /\ x.log[i].op = "Load"
    /\ x.log[i].err # NoError
    /\ ~engine.isNotFoundError.nil
    /\ x.log[i].err \in engine.isNotFoundError.trueFor

\* C4: the not-found context of a load failure.  When a matched handler's
\* loader fails with an error the predicate classifies as not-found, the
\* engine calls the not-found responder with the request's path, the pattern
\* of the module that matched and the source tag page_load, and it does not
\* call the server-error responder.
C4_LoadNotFoundContext ==
    \A i \in DOMAIN x.log : LoadNotFound(i) =>
        /\ Calls("RespondNotFound") # {}
        /\ \A n \in Calls("RespondNotFound") :
              x.log[n].ctx = [RequestPath |-> req.path,
                              MatchedRoutePattern |-> loadedModule(i).Pattern,
                              Source |-> NotFoundSourcePageLoad]
        /\ Calls("RespondServerError") = {}

\* A not-found load failure on a request path that is not the pattern itself.
C4_Witness ==
    \E i \in DOMAIN x.log :
        /\ LoadNotFound(i)
        /\ loadedModule(i).Pattern # << >>
        /\ loadedModule(i).Pattern # req.path
        /\ Calls("RespondNotFound") # {}

\* No handler matches the path of the request, which is neither the health
\* path nor under the static mount.
Unmatched ==
    /\ req # NoRequest
    /\ req.path # engine.srv.healthPath
    /\ ~HasPrefix(req.path, engine.srv.staticPrefix)
    /\ \A h \in DOMAIN engine.handlers : ~pagePatternMatches(h) /\ ~livePatternMatches(h)

\* C5: an unmatched request.  The adapter answers with status 404, and its
\* not-found handling (and the not-found page, where one is configured) gets
\* the request path, the source tag unmatched_route and an empty pattern.
C5_UnmatchedRoute ==
    Unmatched =>
        /\ x.w.status = StatusNotFound
        /\ Cardinality(Calls("handleNotFound")) = 1
        /\ \A n \in Calls("handleNotFound") \cup Calls("notFoundPage") :
              x.log[n].ctx = [RequestPath |-> req.path,
                              MatchedRoutePattern |-> << >>,
                              Source |-> NotFoundSourceUnmatchedRoute]

\* An unmatched request whose context reached the configured not-found page.
C5_Witness ==
    /\ Unmatched
    /\ engine.handlers # << >>
    /\ Calls("notFoundPage") # {}
    /\ x.w.status = StatusNotFound

\* C6: classification of load errors.  A failed load calls exactly one of the
\* two responders, once: the not-found responder when the injected predicate
\* is true of the error, the server-error responder when it is false of it or
\* no predicate was configured.
C6_LoadErrorClassification ==
    \A i \in Calls("Load") : x.log[i].err # NoError =>
        IF ~engine.isNotFoundError.nil /\ x.log[i].err \in engine.isNotFoundError.trueFor
        THEN Cardinality(Calls("RespondNotFound")) = 1 /\ Calls("RespondServerError") = {}
        ELSE Cardinality(Calls("RespondServerError")) = 1 /\ Calls("RespondNotFound") = {}

\* A load failure on an engine without a predicate, answered as a server error.
C6_Witness ==
    /\ engine.isNotFoundError.nil
    /\ \E i \in Calls("Load") : x.log[i].err = "errNotFound"
    /\ Calls("RespondServerError") # {}
    /\ x.w.status = StatusInternalServerError

\* C7: render and patch errors.  When the render callback or the patch
\* callback fails (the load before it succeeded), the engine calls the
\* server-error responder, once, and not the not-found responder, whatever
\* the predicate says of the error.
C7_RenderErrorIsServerError ==
    \A i \in Calls("RenderPage") \cup Calls("PatchLive") : x.log[i].err # NoError =>
        /\ \A l \in Calls("Load") : x.log[l].err = NoError
        /\ Cardinality(Calls("RespondServerError")) = 1
        /\ Calls("RespondNotFound") = {}
        /\ Calls("handleNotFound") = {}

\* A page render failed with an error the predicate takes for not-found.
C7_Witness ==
    /\ ~engine.isNotFoundError.nil
    /\ \E i \in Calls("RenderPage") : x.log[i].err \in engine.isNotFoundError.trueFor
    /\ Calls("RespondServerError") # {}

\* Layouts L[1..n] around a body: L[1] outermost, L[n] innermost.
Nested(layouts, body) ==
    [i \in 1..Len(layouts) |-> [t |-> "open", v |-> layouts[i]]]
        \o body
        \o [i \in 1..Len(layouts) |-> [t |-> "close", v |-> layouts[Len(layouts) + 1 - i]]]

\* C8: layout nesting.  The component handed to the render callback is the
\* page body inside the route's layouts, the first layout outermost and the
\* last innermost; with no layouts it is the page body alone.
C8_LayoutNesting ==
    /\ Calls("RenderPage") # {} => Calls("Load") # {}
    /\ \A i \in Calls("RenderPage"), l \in Calls("Load") :
          LET page == engine.handlers[x.log[l].handler].Page
              body == << [t |-> "text", v |-> << page.Render, "page view" >>] >>
          IN /\ ~x.log[l].live
             /\ x.log[i].component = Nested(page.Layouts, body)
             /\ page.Layouts = << >> => x.log[i].component = body

\* A page rendered inside two layouts or more.
C8_Witness ==
    \E i \in Calls("RenderPage"), l \in Calls("Load") :
        /\ Len(engine.handlers[x.log[l].handler].Page.Layouts) >= 2
        /\ x.log[i].err = NoError
        /\ x.w.body = x.log[i].component

\* C9: a live patch is not wrapped.  The component handed to the patch
\* callback is the output of the route's renderer alone, with no layout
\* around it, and it is addressed to the selector id of the handler's live
\* module; the event written carries that selector and that component.
C9_LivePatchUnwrapped ==
    /\ Calls("PatchLive") # {} => Calls("Load") # {}
    /\ \A i \in Calls("PatchLive"), l \in Calls("Load") :
          LET handler == engine.handlers[x.log[l].handler]
              fragment == << [t |-> "text", v |-> << handler.Page.Render, "live view" >>] >>
          IN /\ x.log[l].live
             /\ x.log[i].component = fragment
             /\ x.log[i].selectorID = handler.Live.SelectorID
             /\ x.log[i].err = NoError =>
                   x.w.body = << [t |-> "event", selector |-> handler.Live.SelectorID, elements |-> fragment] >>

\* A live patch of a route whose page module has layouts.
C9_Witness ==
    \E i \in Calls("PatchLive"), l \in Calls("Load") :
        /\ engine.handlers[x.log[l].handler].Page.Layouts # << >>
        /\ x.log[i].err = NoError
        /\ x.w.body # << >>

\* C10: a tree in which two page routes have the same matcher pattern (the
\* route table rejects it with a pattern conflict) fails generation, and the
\* failed run leaves every file as it was.
C10_ConflictFailsGeneration ==
    [][(/\ runResult = NotRun
        /\ runResult' # NotRun
        /\ NewAppRouter(tree).err = RoutePatternConflict)
       => (runResult' # NoError /\ fs' = fs)]_vars

\* C11: a generation run that returns an error leaves the generated output
\* root exactly as it was: nothing deleted, created or rewritten.
C11_AbortLeavesOutput == [][runResult' # NoError => fs'.gen = fs.gen]_vars

\* C12: the emitter is deterministic: every call on the same route metadata
\* and the same layouts returns the same contracts and registry sources,
\* however the maps were ranged over.
C12_EmitterDeterministic == \A i, j \in DOMAIN emitted : emitted[i] = emitted[j]

\* Two calls of the emitter on a tree whose registry has several wrapper
\* functions and several layout imports.
C12_Witness ==
    /\ Len(emitted) = MaxEmits
    /\ emitted[1].registry.err = NoError
    /\ Len(emitted[1].registry.wrappers) >= 2
    /\ Cardinality(tree.layouts) >= 2

\* The page directories of the tree whose types file is absent or declares
\* no PageView.
untypedPages == {dir \in tree.pages : tree.types[dir] \in {TypesMissing, TypesNoPageView}}

\* The position of a page directory among the discovered pages.
pageIndexOf(dir) == (CHOOSE i \in DOMAIN built.routes.Pages : built.routes.Pages[i].SourcePath = dir)

Names(args, name) == \E i \in DOMAIN args : args[i] = name

requestSegmentsOf(path) == SelectSeq(Split(TrimSpace(path), "/"), LAMBDA part : part # << >>)

staticSegments(route) == {k \in DOMAIN route.segments : ~route.segments[k].isParam}

\* More static segments, then more segments, then the smaller route id.
moreSpecific(left, right) ==
    \/ Cardinality(staticSegments(left)) > Cardinality(staticSegments(right))
    \/ /\ Cardinality(staticSegments(left)) = Cardinality(staticSegments(right))
       /\ Len(left.segments) > Len(right.segments)
    \/ /\ Cardinality(staticSegments(left)) = Cardinality(staticSegments(right))
       /\ Len(left.segments) = Len(right.segments)
       /\ StrLess(left.id, right.id)

routeMatches(route, segments) ==
    /\ Len(route.segments) = Len(segments)
    /\ \A k \in staticSegments(route) : route.segments[k].name = segments[k]

routeCaptures(route, segments) ==
    {[name |-> route.segments[k].name, value |-> segments[k]] : k \in DOMAIN route.segments \ staticSegments(route)}

\* C14: the route table is ordered by specificity and Match returns the most
\* specific route whose segments match the request path, with the request
\* segments at its dynamic positions as parameters; it returns no match only
\* when no route matches.
C14_MostSpecificMatch ==
    /\ router.err = NoError =>
          \A i, j \in DOMAIN router.routes : i < j => moreSpecific(router.routes[i], router.routes[j])
    /\ matched.op = "Match" =>
          LET segments == requestSegmentsOf(matched.path)
              matching == {i \in DOMAIN router.routes : routeMatches(router.routes[i], segments)}
          IN /\ matched.ok <=> matching # {}
             /\ matched.ok =>
                   \E i \in matching :
                      /\ matched.ID = router.routes[i].id
                      /\ matched.params = routeCaptures(router.routes[i], segments)
                      /\ \A j \in matching \ {i} : moreSpecific(router.routes[i], router.routes[j])

\* /author/settings was matched against a table that holds author/settings
\* and a dynamic route that also matches it, and the static route was
\* returned.
C14_Witness ==
    /\ matched.op = "Match"
    /\ matched.path = pathOf(<< SegAuthor, SegSettings >>)
    /\ Cardinality({i \in DOMAIN router.routes :
                       routeMatches(router.routes[i], requestSegmentsOf(matched.path))}) >= 2
    /\ matched.ID = Join(<< SegAuthor, SegSettings >>, << "/" >>)

\* A pattern segment is dynamic in the bracket form [name] and in the legacy
\* form _name; every other segment is static.
dynamicSegment(segment) ==
    \/ Head(segment) = "_"
    \/ Head(segment) = "[" /\ segment[Len(segment)] = "]"

dynamicName(segment) == IF Head(segment) = "_" THEN Tail(segment) ELSE SubSeq(segment, 2, Len(segment) - 1)

\* C15: matchPathPattern succeeds exactly when the pattern and the request
\* path have the same number of segments and every static pattern segment
\* equals the request segment at its position; on success the parameters are
\* the request segments at the dynamic positions, under the segments' names.
C15_PatternMatch ==
    matched.op = "matchPathPattern" =>
        LET pattern == requestSegmentsOf(matched.pattern)
            request == requestSegmentsOf(matched.path)
            dynamic == {k \in DOMAIN pattern : dynamicSegment(pattern[k])}
        IN /\ matched.ok <=>
                 /\ Len(pattern) = Len(request)
                 /\ \A k \in DOMAIN pattern \ dynamic : pattern[k] = request[k]
           /\ matched.ok =>
                 matched.params = {[name |-> dynamicName(pattern[k]), value |-> request[k]] : k \in dynamic}
           /\ Len(pattern) # Len(request) => ~matched.ok

\* A pattern with a static and a dynamic segment matched a request path, and
\* a parameter was captured.
C15_Witness ==
    /\ matched.op = "matchPathPattern"
    /\ matched.ok
    /\ matched.pattern = pathOf(<< SegAuthor, DynSlug >>)
    /\ matched.params = {[name |-> ParamSlug, value |-> SegNina]}

\* A pattern matches a path structurally: as many segments, and the static
\* ones equal.
structurallyMatches(pattern, path) ==
    /\ Len(requestSegmentsOf(pattern)) = Len(requestSegmentsOf(path))
    /\ \A k \in DOMAIN requestSegmentsOf(pattern) :
          dynamicSegment(requestSegmentsOf(pattern)[k])
              \/ requestSegmentsOf(pattern)[k] = requestSegmentsOf(path)[k]

\* No live pattern and no page pattern of a handler matches the path of the
\* dispatched request.
NoPatternMatches ==
    /\ Dispatched
    /\ \A h \in DOMAIN engine.handlers :
          /\ ~structurallyMatches(engine.handlers[h].Page.Pattern, req.path)
          /\ engine.handlers[h].kind = PageAndLiveRouteHandler
                => ~structurallyMatches(engine.handlers[h].Live.Pattern, req.path)

engineCallbacks ==
    {"ParseState", "Load", "RenderPage", "PatchLive", "RespondNotFound", "RespondBadRequest", "RespondServerError"}

\* C16: when no handler's live or page pattern matches the path, ServeRoute
\* returns false, and until it returns no state parser, loader, render or
\* patch callback and no responder has been called.
C16_NoMatchUnserved ==
    NoPatternMatches =>
        \A s \in Calls("ServeRoute") :
            /\ ~x.log[s].served
            /\ \A i \in 1..(s - 1) : x.log[i].op \notin engineCallbacks

\* An unmatched request met a handler list with a live module.
C16_Witness ==
    /\ NoPatternMatches
    /\ \E h \in DOMAIN engine.handlers : engine.handlers[h].kind = PageAndLiveRouteHandler
    /\ Calls("TryServePage") # {}

\* C17: a request whose path equals the configured health path is answered
\* with the configured health body under the health cache policy, and no
\* call reaches the engine: the record of the exchange holds no parameter
\* parser, loader, renderer or responder call, whatever routes are registered.
C17_HealthBypassesEngine ==
    (req # NoRequest /\ req.path = engine.srv.healthPath) =>
        /\ x.log = << >>
        /\ x.w.status = 200
        /\ x.w.body = << [t |-> "text", v |-> engine.srv.healthBody] >>
        /\ x.w.cacheControl = TrimSpace(engine.srv.cachePolicies.Health)

\* A health request at the path of a registered page route, with a
\* configured body and a configured health policy.
C17_Witness ==
    /\ req # NoRequest
    /\ req.path = engine.srv.healthPath
    /\ \E h \in DOMAIN engine.handlers : engine.handlers[h].Page.Pattern = req.path
    /\ engine.srv.healthBody = << "alive" >>
    /\ engine.cfg.CachePolicies.Health # << >>
    /\ x.w.body # << >>

\* The class of the response of the exchange, read off the request and the
\* response: a static asset, the health check, an error answer, a live
\* patch (of a live navigation when the request carries the marker), or a
\* full page.
responseClass ==
    IF HasPrefix(req.path, engine.srv.staticPrefix) THEN "Static"
    ELSE IF req.path = engine.srv.healthPath THEN "Health"
    ELSE IF x.w.status >= 400 THEN "Error"
    ELSE IF x.w.contentType = "text/event-stream"
    THEN IF TrimSpace(req.liveMarker) = << "navigation" >> THEN "LiveNavigation" ELSE "Live"
    ELSE "HTML"

\* What the caller configured for the class, or the default when blank.
configuredOrDefault(class) ==
    IF TrimSpace(engine.cfg.CachePolicies[class]) = << >>
    THEN << "public, max-age=3600, s-maxage=3600" >>
    ELSE TrimSpace(engine.cfg.CachePolicies[class])

\* C18 as stated: every class has a non-blank default of its own, the policy
\* of a response depends on the configuration of its class alone, and a live
\* navigation gets the live-navigation policy.
C18_EveryClassOwnDefault ==
    req # NoRequest => x.w.cacheControl = configuredOrDefault(responseClass)

\* C18: the full-page, live, static, health and error classes have a
\* non-blank default that applies when the class is left blank and are not
\* touched by the other classes; the live-navigation class has no default of
\* its own: a live navigation gets the live-navigation policy when one is
\* configured and the policy of the live class otherwise.
C18_CachePolicyPerClass ==
    req # NoRequest =>
        x.w.cacheControl =
            IF responseClass = "LiveNavigation" /\ TrimSpace(engine.cfg.CachePolicies.LiveNavigation) = << >>
            THEN configuredOrDefault("Live")
            ELSE configuredOrDefault(responseClass)

\* A live navigation answered by a server whose caller set the live policy
\* and left the live-navigation policy blank.
C18_Witness ==
    /\ req # NoRequest
    /\ responseClass = "LiveNavigation"
    /\ engine.cfg.CachePolicies.LiveNavigation = << >>
    /\ engine.cfg.CachePolicies.Live # << >>
    /\ x.w.cacheControl = << "no-store", "Live" >>

bareNotFoundBody == << [t |-> "text", v |-> << "404 page not found" >>] >>

serverErrorLogged == Calls("logServerErr") \cup Calls("log.Printf")

\* C19: every answer of the adapter's not-found responder has status 404 and
\* the error cache policy.  Without a not-found renderer, or with one that
\* supplies no component, the answer is the bare not-found text; otherwise
\* the renderer is called with the not-found context and its component is
\* rendered as the HTML body of the 404 answer.
C19_NotFoundResponder ==
    \A n \in Calls("handleNotFound") :
        /\ x.w.status = 404
        /\ x.w.cacheControl = TrimSpace(engine.srv.cachePolicies.Error)
        /\ engine.cfg.NotFoundPage = NotFoundPageNil =>
              /\ Calls("notFoundPage") = {}
              /\ x.w.contentType = "text/plain; charset=utf-8"
              /\ x.w.body = bareNotFoundBody
        /\ engine.cfg.NotFoundPage = NotFoundPageNilComponent =>
              /\ x.w.contentType = "text/plain; charset=utf-8"
              /\ x.w.body = bareNotFoundBody
        /\ engine.cfg.NotFoundPage = NotFoundPageComponent =>
              /\ \E p \in Calls("notFoundPage") : p > n /\ x.log[p].ctx = x.log[n].ctx
              /\ x.w.contentType = "text/html; charset=utf-8"
              /\ serverErrorLogged = {} =>
                    x.w.body = << [t |-> "text", v |-> x.log[n].ctx.RequestPath] >>

\* The not-found component rendered for a request no route matches, under an
\* error policy the caller configured.
C19_Witness ==
    /\ Calls("handleNotFound") # {}
    /\ engine.cfg.NotFoundPage = NotFoundPageComponent
    /\ engine.cfg.CachePolicies.Error # << >>
    /\ engine.cfg.CachePolicies.HTML # << >>
    /\ serverErrorLogged = {}
    /\ x.w.status = 404
    /\ x.w.body = << [t |-> "text", v |-> req.path] >>

\* C20: an exchange in which a server error was reported (a load error not
\* classified not-found, a failed page render, a failed live patch, a failed
\* render of the not-found page) logs it through the injected callback when
\* one is configured and answers with status 500 and the generic text.
C20_ServerErrorIsGeneric500 ==
    serverErrorLogged # {} =>
        /\ engine.cfg.LogServerError => Calls("logServerErr") # {}
        /\ x.w.status = 500
        /\ x.w.body = << [t |-> "text", v |-> << "Internal Server Error" >>] >>

genericErrorBody == << [t |-> "text", v |-> << "Internal Server Error" >>] >>

rendererCalls == Calls("RenderPage") \cup Calls("PatchLive") \cup Calls("notFoundPage")

C22_ConcurrentDispatch ==
    [][/\ engine' = engine
       /\ \A k \in DOMAIN flights' :
             flights'[k].done =>
                LET alone == ServeRoute(engine, [w |-> NewResponse, log |-> << >>],
                                        flights'[k].r, flights'[k].o)
                IN /\ flights'[k].served = alone.served
                   /\ flights'[k].x = alone.x]_vars

\* Two requests in flight, the second returned served while the first is
\* between two handlers of its loop.
C22_Witness ==
    /\ Len(flights) = 2
    /\ ~flights[1].done /\ flights[1].x.log # << >>
    /\ flights[2].done /\ flights[2].served
    /\ flights[1].r # flights[2].r

handlerTries == Calls("TryServeLive") \cup Calls("TryServePage") \cup Calls("ParseParams")

\* C23: in a dispatched request at most one loader call is made, and once a
\* parameter parser has accepted the path no handler is tried after it and
\* ServeRoute reports the request served, whatever the loader returned.
C23_SinglePass ==
    Calls("ServeRoute") # {} =>
        /\ Cardinality(Calls("Load")) <= 1
        /\ \A p \in Calls("ParseParams") :
              x.log[p].ok =>
                 /\ \A s \in Calls("ServeRoute") : x.log[s].served
                 /\ \A t \in handlerTries : t <= p
                 /\ \A l \in Calls("Load") : l > p /\ x.log[l].handler = x.log[p].handler

\* The first of two handlers with the same page pattern accepted the path
\* and its load ended not-found: the second was not tried.
C23_Witness ==
    /\ Calls("ServeRoute") # {}
    /\ Len(engine.handlers) = 2
    /\ engine.handlers[2].Page.Pattern = engine.handlers[1].Page.Pattern
    /\ \E p \in Calls("ParseParams") : x.log[p].ok /\ x.log[p].handler = 1 /\ ~x.log[p].live
    /\ \E l \in Calls("Load") : x.log[l].err = "errNotFound"
    /\ Calls("RespondNotFound") # {}

\* C24: a request that ends with status 404 had the not-found responder
\* called exactly once, and no request has it called twice.  When the engine
\* reported a not-found load, the one context is the engine's and the adapter
\* adds no unmatched-route context; when no handler served the request, the
\* one context is the adapter's unmatched-route context.
C24_NotFoundOnce ==
    Calls("ServeRoute") # {} =>
        /\ Cardinality(Calls("handleNotFound")) <= 1
        /\ x.w.status = 404 => Cardinality(Calls("handleNotFound")) = 1
        /\ \A e \in Calls("RespondNotFound") :
              /\ \A s \in Calls("ServeRoute") : x.log[s].served
              /\ \A n \in Calls("handleNotFound") :
                    /\ x.log[n].ctx = x.log[e].ctx
                    /\ x.log[n].ctx.Source # "unmatched_route"
        /\ \A s \in Calls("ServeRoute") :
              ~x.log[s].served =>
                 /\ Calls("RespondNotFound") = {}
                 /\ \A n \in Calls("handleNotFound") : x.log[n].ctx.Source = "unmatched_route"

\* A load that ended not-found, answered 404 through the engine's call of the
\* not-found responder alone.
C24_Witness ==
    /\ Calls("RespondNotFound") # {}
    /\ Cardinality(Calls("handleNotFound")) = 1
    /\ x.w.status = 404
    /\ \E s \in Calls("ServeRoute") : x.log[s].served

\* The generated registry has a live module with the pattern of the route of
\* the page directory followed by /live.
liveRegistered(dir) ==
    \E h \in DOMAIN generatedHandlers :
        /\ generatedHandlers[h].kind = "PageAndLiveRouteHandler"
        /\ generatedHandlers[h].Page.Pattern = pathOf(dir)
        /\ generatedHandlers[h].Live.Pattern = pathOf(dir) \o << "/", "l", "i", "v", "e" >>

\* The routes of the tree that declare no LiveState and whose pattern
\* followed by /live is the path of the request.
liveLessRequested ==
    {dir \in tree.pages : tree.types[dir] # TypesPageViewLiveState
                            /\ req.path = pathOf(dir) \o << "/", "l", "i", "v", "e" >>}

registryLiveIffLiveState ==
    /\ Len(generatedHandlers) = Cardinality(tree.pages)
    /\ \A dir \in tree.pages : liveRegistered(dir) <=> tree.types[dir] = TypesPageViewLiveState
    /\ \A h \in DOMAIN generatedHandlers :
          /\ \E dir \in tree.pages : generatedHandlers[h].Page.Pattern = pathOf(dir)
          /\ generatedHandlers[h].kind = "PageAndLiveRouteHandler" =>
                generatedHandlers[h].Live.Pattern =
                    generatedHandlers[h].Page.Pattern \o << "/", "l", "i", "v", "e" >>

endsUnmatchedNotFound ==
    /\ \A p \in Calls("ParseParams") : ~x.log[p].ok
    /\ x.w.status = 404
    /\ \A n \in Calls("handleNotFound") :
          x.log[n].ctx.RequestPath = req.path /\ x.log[n].ctx.Source = "unmatched_route"
    /\ Calls("handleNotFound") # {}

slugRule(value) ==
    /\ Len(value) >= 1
    /\ \A i \in DOMAIN value :
          \/ value[i] \in {"-", "_"} /\ i > 1
          \/ IsLetter(value[i])
          \/ IsDigit(value[i])

slugPositions(pattern) == {k \in DOMAIN pattern : pattern[k] = << "[", "s", "l", "u", "g", "]" >>}

resolverDirOf(dir) ==
    IF dir = << >> THEN << "r", "o", "o", "t" >>
    ELSE Join([i \in 1..Len(dir) |->
                  IF Head(dir[i]) = "["
                  THEN << "p", "a", "r", "a", "m", "_" >> \o ToLower(SubSeq(dir[i], 2, Len(dir[i]) - 1))
                  ELSE dir[i]], << "/" >>)

requiredMethods(dir) ==
    IF tree.types[dir] = TypesPageViewLiveState
    THEN << "ResolvePage", "ParseLiveState", "ResolveLive" >>
    ELSE << "ResolvePage" >>

\* C27: a generation run leaves every resolver file that existed before it
\* as it was, whether it succeeds or fails.  Every file it adds is in a
\* resolver directory that had none, belongs to a route of the tree, and has
\* exactly the methods the route's contract requires, each returning the
\* labelled not-implemented error that names the method and the route.  After
\* a run that succeeded every route has a resolver file.
C27_StubsOnlyWhereMissing ==
    [][fs' # fs \/ runResult' # runResult =>
        /\ \A f \in fs.resolvers : f \in fs'.resolvers
        /\ \A f \in fs'.resolvers \ fs.resolvers :
              /\ ~\E g \in fs.resolvers : g.dir = f.dir
              /\ f.content.origin = "generated stub"
              /\ \E dir \in tree.pages :
                    /\ resolverDirOf(dir) = f.dir
                    /\ [i \in DOMAIN f.content.methods |-> f.content.methods[i].name] = requiredMethods(dir)
                    /\ \A i \in DOMAIN f.content.methods :
                          f.content.methods[i].returns =
                              [label |-> "TODO: implement", method |-> requiredMethods(dir)[i],
                               route |-> pathOf(dir)]
        /\ runResult' = NoError =>
              \A dir \in tree.pages : \E f \in fs'.resolvers : f.dir = resolverDirOf(dir)]_vars

\* After a run over two routes, one with a hand-written resolver and one
\* without: the first is as it was, the second has a stub with the three
\* methods of a live route.
C27_Witness ==
    /\ runResult = NoError
    /\ \E f \in fs.resolvers : f.content.origin = "hand-written"
    /\ \E f \in fs.resolvers : f.content.origin = "generated stub" /\ Len(f.content.methods) = 3
    /\ Cardinality(fs.resolvers) = 2

LegacyHint == "legacy wildcard segment is not allowed; use [param] directories"

legacyParsed == matched.op = "parseRouteSegment" /\ HasPrefix(matched.path, << "_" >>)

\* The trees with an underscore-prefixed directory name in a route directory.
legacyTree ==
    \E dir \in tree.pages \cup tree.layouts : \E i \in 1..Len(dir) : HasPrefix(dir[i], << "_" >>)

\* C28 as stated: the segment parser rejects every underscore-prefixed
\* directory name with the error that tells the author to use [param]
\* directories.
C28_LegacyAlwaysHinted ==
    legacyParsed => ~matched.ok /\ matched.err = LegacyHint

\* C28: the segment parser rejects every underscore-prefixed directory name
\* and returns no segment for it, neither a parameter nor a static one.  The
\* error is the one that tells the author to use [param] directories, except
\* for a name that ends in a closing bracket, which is rejected as an invalid
\* wildcard segment.  A generation run over a tree with such a directory
\* fails and writes nothing.
C28_LegacySegmentRejected ==
    /\ legacyParsed =>
          /\ ~matched.ok
          /\ matched.pattern = << >>
          /\ matched.err = IF matched.path[Len(matched.path)] = "]"
                           THEN "invalid wildcard segment" ELSE LegacyHint
    /\ legacyTree /\ runResult # NotRun =>
          /\ runResult \in {LegacyHint, "invalid wildcard segment"}
          /\ fs = [gen |-> {}, resolvers |-> {}]

\* The parser was called on _old below no other directory and the run over
\* the tree has failed with the hint.
C28_Witness ==
    /\ legacyParsed
    /\ matched.path = << "_", "o", "l", "d" >>
    /\ matched.err = LegacyHint
    /\ runResult = LegacyHint

\* C29: matching is invariant under a trailing slash.  For every router and
\* every request path, matching the path followed by a slash returns the
\* same route and the same captured parameters as matching the path.
C29_TrailingSlashInvariant ==
    matched.op = "Match" =>
        \E again \in {Match(router, matched.path \o << "/" >>)} :
            /\ again.ok = matched.ok
            /\ again.ID = matched.ID
            /\ again.Params = matched.params

\* The directories at or above a directory, the root included.
atOrAbove(dir) == { SubSeq(dir, 1, k) : k \in 0..Len(dir) }

layoutRendererOf(dir) == moduleNameFor(layoutTemplate, parseRouteSegments(Join(dir, << "/" >>)).segments)

\* The page module the registry holds for the route of a page directory.
pageModuleOf(dir) ==
    (CHOOSE h \in {generatedHandlers[i] : i \in DOMAIN generatedHandlers} : h.Page.Pattern = pathOf(dir)).Page

\* C30: in the generated registry the layouts of every route are exactly the
\* layouts of the tree in the route's directory or in a directory above it,
\* the root included, each once, and a layout nearer to the root comes
\* before one farther from it.  A layout in a directory next to or below the
\* route's is not among them.
C30_LayoutChain ==
    runResult = NoError =>
        \A dir \in tree.pages :
            \E chain \in {pageModuleOf(dir).Layouts} :
                /\ Len(chain) = Cardinality(tree.layouts \cap atOrAbove(dir))
                /\ \A j \in DOMAIN chain :
                      \E l \in tree.layouts \cap atOrAbove(dir) :
                          /\ chain[j] = layoutRendererOf(l)
                          /\ j = Cardinality({m \in tree.layouts \cap atOrAbove(dir) : Len(m) <= Len(l)})

\* A generated registry for the route author/[slug] in a tree with layouts
\* at the root, in author, in author/[slug], in author/settings and in auth:
\* the route has the first three, the root's first.
C30_Witness ==
    /\ runResult = NoError
    /\ << SegAuthor, DynSlug >> \in tree.pages
    /\ tree.layouts = LayoutChainDirs
    /\ pageModuleOf(<< SegAuthor, DynSlug >>).Layouts =
          << layoutRendererOf(<< >>), layoutRendererOf(<< SegAuthor >>),
             layoutRendererOf(<< SegAuthor, DynSlug >>) >>

====
